---- MODULE Spec2Model ----
(***************************************************************************)
(* Model of src/app.py (TeMapeo orchard dashboard): the text classifiers   *)
(* of the class column, and the cascading filters of the sidebar together  *)
(* with the flight split of the summary tab.                               *)
(*                                                                         *)
(* Texts are sequences of one-character strings, so that str(), lower()    *)
(* and the substring test `in` are computed character by character.        *)
(***************************************************************************)
EXTENDS Integers, Sequences, FiniteSets, TLC

VARIABLES
    clase,      \* classifier run: the cell value of the <indice>_clase column
    res,        \* classifier run: what each classifier returned for it
    df,         \* the loaded point table (cargar_datos), a sequence of rows
    cols,       \* the columns the table has
    sel,        \* the widget values of the last pass (fechas_sel, especie_sel, ...)
    sb,         \* what crear_sidebar computed in the last pass
    cmp,        \* the flight split of tab_resumen in the last pass
    an,         \* analysis run: a row set and what the figures computed over it are
    tend,       \* comparison run: the two flight means and the trend reported
    pase        \* tabs run: the table's columns, the polygons and what each tab did

vars == <<clase, res, df, cols, sel, sb, cmp, an, tend, pase>>

----------------------------------------------------------------------------
(* Bounds *)

\* most fragments a class text is made of
MaxFrags == 3
\* largest numeric class code tried
MaxCodigo == 7
\* most rows of the point table
MaxRows == 2

----------------------------------------------------------------------------
(* Characters and Python's str operations *)

\* the characters used, in code-point order (space, '-', '.', digits, ':',
\* A-Z, a-z)
Alfabeto ==
    <<" ", "-", ".", "0", "1", "2", "3", "4", "5", "6", "7", "8", "9", ":",
      "A", "B", "C", "D", "E", "F", "G", "H", "I", "J", "K", "L", "M",
      "N", "O", "P", "Q", "R", "S", "T", "U", "V", "W", "X", "Y", "Z",
      "a", "b", "c", "d", "e", "f", "g", "h", "i", "j", "k", "l", "m",
      "n", "o", "p", "q", "r", "s", "t", "u", "v", "w", "x", "y", "z">>

\* ord(c), as the position in Alfabeto
Codigos == [c \in {Alfabeto[i] : i \in 1..Len(Alfabeto)} |->
               CHOOSE i \in 1..Len(Alfabeto) : Alfabeto[i] = c]

Ord(c) == Codigos[c]

EsMayuscula(c) == Ord(c) >= Ord("A") /\ Ord(c) <= Ord("Z")

EsMinuscula(c) == Ord(c) >= Ord("a") /\ Ord(c) <= Ord("z")

\* str.lower() on one character, and on a text
LowerChar(c) == IF EsMayuscula(c) THEN Alfabeto[Ord(c) + 26] ELSE c

UpperChar(c) == IF EsMinuscula(c) THEN Alfabeto[Ord(c) - 26] ELSE c

Lower(s) == [i \in 1..Len(s) |-> LowerChar(s[i])]

\* Python's `sub in s` on texts
Contiene(sub, s) ==
    \E i \in 0..(Len(s) - Len(sub)) :
        \A j \in 1..Len(sub) : s[i + j] = sub[j]

\* Python's s[:n]
Prefijo(s, n) == SubSeq(s, 1, IF Len(s) < n THEN Len(s) ELSE n)

Digitos == <<"0", "1", "2", "3", "4", "5", "6", "7", "8", "9">>

RECURSIVE IntToStr(_)
\* str(n) of a non-negative integer
IntToStr(n) ==
    IF n < 10 THEN <<Digitos[n + 1]>>
    ELSE IntToStr(n \div 10) \o <<Digitos[(n % 10) + 1]>>

\* lexicographic order of texts by code point (Python's str <)
RECURSIVE MenorStr(_, _)
MenorStr(a, b) ==
    IF a = <<>> THEN b # <<>>
    ELSE IF b = <<>> THEN FALSE
    ELSE IF a[1] # b[1] THEN Ord(a[1]) < Ord(b[1])
    ELSE MenorStr(Tail(a), Tail(b))

\* sorted(S) of a finite set of texts
RECURSIVE SortedStr(_)
SortedStr(S) ==
    IF S = {} THEN <<>>
    ELSE LET m == CHOOSE x \in S : \A y \in S \ {x} : MenorStr(x, y)
         IN <<m>> \o SortedStr(S \ {m})

\* the elements of a sequence
Range(s) == {s[i] : i \in 1..Len(s)}

\* F(x) with x evaluated once: a local variable assigned once and then read
Sea(x, F(_)) == CHOOSE v \in { F(y) : y \in {x} } : TRUE

----------------------------------------------------------------------------
(* Cell values: what a cell of the table can hold *)

\* a cell value: None, NaN, an integer, an integer-valued float, a text, or a
\* date of a column of dtype datetime64
Valor(k, n, s) == [k |-> k, n |-> n, s |-> s]

ValNone == Valor("none", 0, <<>>)
ValNaN == Valor("nan", 0, <<>>)
ValInt(n) == Valor("int", n, <<>>)
ValFloat(n) == Valor("float", n, <<>>)
ValStr(s) == Valor("str", 0, s)
\* midnight of day d (1..9) of January 2024, in a datetime64 column
ValFecha(d) == Valor("datetime", d, <<>>)

\* pandas' isna / notna
EsNulo(v) == v.k \in {"none", "nan"}

\* the date part of a date's text: '2024-01-0d'
FechaTexto(d) == <<"2", "0", "2", "4", "-", "0", "1", "-", "0">> \o IntToStr(d)

\* Python's str(x) of a value taken out of a column (an element of
\* Series.unique()); of a datetime64 column the element is a Timestamp, whose
\* text carries the time of day (with older pandas a numpy.datetime64, whose
\* text is the date and 'T00:00:00.000000000')
Str(v) ==
    CASE v.k = "none"     -> <<"N", "o", "n", "e">>
      [] v.k = "nan"      -> <<"n", "a", "n">>
      [] v.k = "int"      -> IntToStr(v.n)
      [] v.k = "float"    -> IntToStr(v.n) \o <<".", "0">>
      [] v.k = "datetime" -> FechaTexto(v.n)
                               \o <<" ", "0", "0", ":", "0", "0", ":", "0", "0">>
      [] OTHER            -> v.s

\* Series.astype(str), cell by cell: str(x) of the cell, except in a
\* datetime64 column, whose midnight dates are written as the date alone
AsTypeStr(v) == IF v.k = "datetime" THEN FechaTexto(v.n) ELSE Str(v)

----------------------------------------------------------------------------
(* Class names and colours *)

COLORES_CLASE ==
    [c \in {"Muy bajo", "Bajo", "Medio", "Medio-alto", "Alto", "Sin dato"} |->
        CASE c = "Muy bajo"   -> "#d7191c"
          [] c = "Bajo"       -> "#fdae61"
          [] c = "Medio"      -> "#ffffbf"
          [] c = "Medio-alto" -> "#a6d96a"
          [] c = "Alto"       -> "#1a9641"
          [] OTHER            -> "#969696"]

\* the substrings the classifiers look for
t_muy_bajo == <<"m", "u", "y", " ", "b", "a", "j", "o">>
t_muy == <<"m", "u", "y">>
t_bajo == <<"b", "a", "j", "o">>
t_medio == <<"m", "e", "d", "i", "o">>
t_alto == <<"a", "l", "t", "o">>
t_medio_alto_guion == <<"m", "e", "d", "i", "o", "-", "a", "l", "t", "o">>
t_medio_alto_espacio == <<"m", "e", "d", "i", "o", " ", "a", "l", "t", "o">>

----------------------------------------------------------------------------
(* The classifiers *)

\* asignar_color_hex with the compound test after the simple 'medio' test
asignar_color_hex_medio_primero(v) ==
    LET clase_str == Lower(Str(v)) IN
    IF Contiene(t_muy_bajo, clase_str) THEN COLORES_CLASE["Muy bajo"]
    ELSE IF Contiene(t_bajo, clase_str) /\ ~Contiene(t_muy, clase_str)
            /\ ~Contiene(t_medio, clase_str) THEN COLORES_CLASE["Bajo"]
    ELSE IF Contiene(t_medio, clase_str) THEN COLORES_CLASE["Medio"]
    ELSE IF Contiene(t_medio_alto_guion, clase_str)
            \/ Contiene(t_medio_alto_espacio, clase_str)
         THEN COLORES_CLASE["Medio-alto"]
    ELSE IF Contiene(t_alto, clase_str) THEN COLORES_CLASE["Alto"]
    ELSE COLORES_CLASE["Sin dato"]

asignar_color_hex(v) ==
    LET clase_str == Lower(Str(v)) IN
    IF Contiene(t_muy_bajo, clase_str) THEN COLORES_CLASE["Muy bajo"]
    ELSE IF Contiene(t_bajo, clase_str) /\ ~Contiene(t_muy, clase_str)
            /\ ~Contiene(t_medio, clase_str) THEN COLORES_CLASE["Bajo"]
    ELSE IF Contiene(t_medio_alto_guion, clase_str)
            \/ Contiene(t_medio_alto_espacio, clase_str)
         THEN COLORES_CLASE["Medio-alto"]
    ELSE IF Contiene(t_medio, clase_str) THEN COLORES_CLASE["Medio"]
    ELSE IF Contiene(t_alto, clase_str) THEN COLORES_CLASE["Alto"]
    ELSE COLORES_CLASE["Sin dato"]

\* clasificar_punto of crear_mapa_plotly with its last test made unconditional
clasificar_punto_sin_defecto(v) ==
    LET clase_lower == Lower(Str(v)) IN
    IF Contiene(t_muy_bajo, clase_lower) THEN "Muy bajo"
    ELSE IF Contiene(t_medio_alto_guion, clase_lower)
            \/ Contiene(t_medio_alto_espacio, clase_lower) THEN "Medio-alto"
    ELSE IF Contiene(t_medio, clase_lower) THEN "Medio"
    ELSE IF Contiene(t_bajo, clase_lower) THEN "Bajo"
    ELSE "Alto"

\* clasificar_punto of crear_mapa_plotly
clasificar_punto(v) ==
    LET clase_lower == Lower(Str(v)) IN
    IF Contiene(t_muy_bajo, clase_lower) THEN "Muy bajo"
    ELSE IF Contiene(t_medio_alto_guion, clase_lower)
            \/ Contiene(t_medio_alto_espacio, clase_lower) THEN "Medio-alto"
    ELSE IF Contiene(t_medio, clase_lower) THEN "Medio"
    ELSE IF Contiene(t_bajo, clase_lower) THEN "Bajo"
    ELSE IF Contiene(t_alto, clase_lower) THEN "Alto"
    ELSE "Sin dato"

\* the ordinal class set, lowest to highest
ORDEN_CLASES == <<"Muy bajo", "Bajo", "Medio", "Medio-alto", "Alto">>

\* clasificar_punto of crear_mapa_plotly_satelite with a numeric-code lookup
\* put in front of the text tests
clasificar_punto_satelite_con_codigo(v) ==
    LET clase_lower == Lower(Str(v)) IN
    IF v.k \in {"int", "float"} /\ v.n \in 1..Len(ORDEN_CLASES) THEN ORDEN_CLASES[v.n]
    ELSE IF Contiene(t_muy_bajo, clase_lower) THEN "Muy bajo"
    ELSE IF Contiene(t_medio_alto_guion, clase_lower)
            \/ Contiene(t_medio_alto_espacio, clase_lower) THEN "Medio-alto"
    ELSE IF Contiene(t_medio, clase_lower) THEN "Medio"
    ELSE IF Contiene(t_bajo, clase_lower) THEN "Bajo"
    ELSE IF Contiene(t_alto, clase_lower) THEN "Alto"
    ELSE "Sin dato"

\* clasificar_punto of crear_mapa_plotly_satelite
clasificar_punto_satelite(v) ==
    LET clase_lower == Lower(Str(v)) IN
    IF Contiene(t_muy_bajo, clase_lower) THEN "Muy bajo"
    ELSE IF Contiene(t_medio_alto_guion, clase_lower)
            \/ Contiene(t_medio_alto_espacio, clase_lower) THEN "Medio-alto"
    ELSE IF Contiene(t_medio, clase_lower) THEN "Medio"
    ELSE IF Contiene(t_bajo, clase_lower) THEN "Bajo"
    ELSE IF Contiene(t_alto, clase_lower) THEN "Alto"
    ELSE "Sin dato"

\* what etiqueta_corta returns: one of its fixed labels, or str(clase)[:15]
Etiqueta(lit) == [k |-> "fija", lit |-> lit, txt |-> <<>>]
EtiquetaTexto(s) == [k |-> "texto", lit |-> "", txt |-> s]

\* etiqueta_corta of crear_grafico_distribucion
etiqueta_corta(v) ==
    LET clase_lower == Lower(Str(v)) IN
    IF Contiene(t_muy_bajo, clase_lower) THEN Etiqueta("Muy Bajo")
    ELSE IF Contiene(t_medio_alto_guion, clase_lower)
            \/ Contiene(t_medio_alto_espacio, clase_lower) THEN Etiqueta("Medio-Alto")
    ELSE IF Contiene(t_bajo, clase_lower) THEN Etiqueta("Bajo")
    ELSE IF Contiene(t_medio, clase_lower) THEN Etiqueta("Medio")
    ELSE IF Contiene(t_alto, clase_lower) THEN Etiqueta("Alto")
    ELSE EtiquetaTexto(Prefijo(Str(v), 15))

\* orden_clases of crear_grafico_distribucion
orden_clases == <<t_muy_bajo, t_bajo, t_medio, t_medio_alto_guion, t_alto>>

\* obtener_orden of crear_grafico_distribucion: the 0-based place of the first
\* entry of orden_clases found in the text, 'medio' being passed over when the
\* text also holds 'alto'; 99 when none is found
obtener_orden(v) ==
    LET clase_lower == Lower(Str(v))
        halla(i) == /\ Contiene(orden_clases[i], clase_lower)
                    /\ ~(orden_clases[i] = t_medio /\ Contiene(t_alto, clase_lower))
    IN IF \E i \in DOMAIN orden_clases : halla(i)
       THEN (CHOOSE i \in DOMAIN orden_clases :
               halla(i) /\ \A j \in 1..(i - 1) : ~halla(j)) - 1
       ELSE 99

\* the marker traces of crear_mapa_plotly a row is drawn in: one trace is made
\* for each class of clases_orden, of the rows whose clase_simple is that class
trazas(v) == { c \in Range(ORDEN_CLASES) : clasificar_punto(v) = c }

\* the same for crear_mapa_plotly_satelite
trazas_satelite(v) == { c \in Range(ORDEN_CLASES) : clasificar_punto_satelite(v) = c }

\* `sub in str(x).lower()`
En(sub, x) == Contiene(sub, Lower(Str(x)))

\* the healthy test of mostrar_kpis and of calc_pct_sanos
EsSanoKpi(x) == En(t_alto, x) /\ ~En(t_bajo, x)

\* the tests of the n_medio_alto and n_alto counters of
\* generar_analisis_automatico
cuenta_medio_alto(x) == En(t_medio_alto_guion, x) \/ En(t_medio_alto_espacio, x)
cuenta_alto(x) == En(t_alto, x) /\ ~En(t_medio, x)

----------------------------------------------------------------------------
(* Inputs of the classifier run *)

\* the word fragments class texts are built from, in lower case
Fragmentos ==
    { t_muy, t_bajo, t_medio, t_alto,
      <<"m", "e", "d", "i", "u", "m">>, <<"h", "i", "g", "h">>,
      <<" ">>, <<"-">>, <<"x">> }

RECURSIVE Concatenar(_)
Concatenar(fs) == IF fs = <<>> THEN <<>> ELSE Head(fs) \o Concatenar(Tail(fs))

\* lower-case texts of up to MaxFrags fragments (the empty text included)
TextosBase ==
    { Concatenar(fs) : fs \in UNION { [1..n -> Fragmentos] : n \in 0..MaxFrags } }

\* the letter cases a text is tried in
Estilos == {"lower", "UPPER", "Capital", "aLtErNa"}

ConEstilo(s, e) ==
    CASE e = "UPPER"   -> [i \in 1..Len(s) |-> UpperChar(s[i])]
      [] e = "Capital" -> [i \in 1..Len(s) |-> IF i = 1 THEN UpperChar(s[i]) ELSE s[i]]
      [] e = "aLtErNa" -> [i \in 1..Len(s) |-> IF i % 2 = 0 THEN UpperChar(s[i]) ELSE s[i]]
      [] OTHER         -> s

Textos == { ConEstilo(s, e) : s \in TextosBase, e \in Estilos }

ValoresClase ==
    {ValNone, ValNaN}
    \cup { ValInt(n) : n \in 0..MaxCodigo }
    \cup { ValFloat(n) : n \in 0..MaxCodigo }
    \cup { ValStr(s) : s \in Textos }

\* res before the classifiers have run
SinResultado == [hecho |-> FALSE, color |-> "", punto |-> "", punto_sat |-> "",
                 etiqueta |-> Etiqueta(""), orden |-> 0, trazas |-> {},
                 trazas_sat |-> {}, sano_kpi |-> FALSE, sano_analisis |-> FALSE]

\* placeholders of the table variables in the classifier run
SinTabla == <<>>
SinSel == [hecho |-> FALSE]

InitClasif ==
    /\ clase \in ValoresClase
    /\ res = SinResultado
    /\ df = SinTabla
    /\ cols = {}
    /\ sel = SinSel
    /\ sb = SinSel
    /\ cmp = SinSel
    /\ an = SinSel
    /\ tend = SinSel
    /\ pase = SinSel

\* every classifier applied to the cell value
Clasificar ==
    /\ ~res.hecho
    /\ res' = [hecho |-> TRUE,
               color |-> asignar_color_hex(clase),
               punto |-> clasificar_punto(clase),
               punto_sat |-> clasificar_punto_satelite(clase),
               etiqueta |-> etiqueta_corta(clase),
               orden |-> obtener_orden(clase),
               trazas |-> trazas(clase),
               trazas_sat |-> trazas_satelite(clase),
               sano_kpi |-> EsSanoKpi(clase),
               sano_analisis |-> cuenta_alto(clase) \/ cuenta_medio_alto(clase)]
    /\ UNCHANGED <<clase, df, cols, sel, sb, cmp, an, tend, pase>>

NextClasif == Clasificar

SpecClasif == InitClasif /\ [][NextClasif]_vars

----------------------------------------------------------------------------
(* The point table and pandas' row selection *)

\* the columns the sidebar filters on
COLUMNAS_FILTRO == {"fecha_vuelo", "Especie", "Variedad", "Cuartel"}

\* the cell of a column the table does not have
Ausente == Valor("ausente", 0, <<>>)

\* the sentinel of the select boxes
Todas == <<"T", "o", "d", "a", "s">>

\* Series.dropna().unique() of a column: its distinct non-null values
Unicos(filas, c) == { filas[i][c] : i \in 1..Len(filas) } \ {ValNone, ValNaN}

\* sorted([str(f) for f in col.dropna().unique()])
FechasOrdenadas(filas) == SortedStr({ Str(v) : v \in Unicos(filas, "fecha_vuelo") })

\* sorted(col.dropna().unique().tolist()) of a text column
ValoresOrdenados(filas, c) ==
    LET ts == SortedStr({ v.s : v \in Unicos(filas, c) })
    IN [i \in 1..Len(ts) |-> ValStr(ts[i])]

\* df[df[c].astype(str) == texto]
FiltrarIgualStr(filas, c, texto) ==
    SelectSeq(filas, LAMBDA r : AsTypeStr(r[c]) = texto)

\* df[df[c] == v] losing the first row of the selection
FiltrarIgual_sin_primera(filas, c, v) ==
    LET f == SelectSeq(filas, LAMBDA r : ~EsNulo(r[c]) /\ r[c] = v)
    IN IF f = <<>> THEN f ELSE Tail(f)

\* df[df[c] == v]: a null cell equals nothing
FiltrarIgual(filas, c, v) ==
    SelectSeq(filas, LAMBDA r : ~EsNulo(r[c]) /\ r[c] = v)

\* df[df[c].isin(vs)]
FiltrarIsin(filas, c, vs) ==
    SelectSeq(filas, LAMBDA r : r[c] \in vs)

----------------------------------------------------------------------------
(* crear_sidebar: the four filter stages *)

\* a stage's outcome: the rows it passes on, or the KeyError of a column
\* the table does not have
Etapa(filas) == [filas |-> filas, error |-> FALSE]
KeyError == [filas |-> <<>>, error |-> TRUE]

\* 1. the options of the date select box (None: the box is not drawn)
OpcionesFecha(tabla, columnas) ==
    IF "fecha_vuelo" \in columnas THEN <<Todas>> \o FechasOrdenadas(tabla) ELSE <<>>

\* 1. the date stage dropping the rows without date when left at 'Todas'
EtapaFecha_sin_nulos(filt, columnas, fechas_sel) ==
    IF "fecha_vuelo" \in columnas
    THEN IF fechas_sel # Todas
         THEN Etapa(FiltrarIgualStr(filt, "fecha_vuelo", fechas_sel))
         ELSE Etapa(SelectSeq(filt, LAMBDA r : ~EsNulo(r["fecha_vuelo"])))
    ELSE Etapa(filt)

\* 1. the date stage
EtapaFecha(filt, columnas, fechas_sel) ==
    IF "fecha_vuelo" \in columnas
    THEN IF fechas_sel # Todas
         THEN Etapa(FiltrarIgualStr(filt, "fecha_vuelo", fechas_sel))
         ELSE Etapa(filt)
    ELSE Etapa(filt)

\* 2. the species options taken from the unfiltered table
OpcionesEspecie_de_tabla(tabla, filt, columnas) ==
    IF "Especie" \in columnas
    THEN <<ValStr(Todas)>> \o ValoresOrdenados(tabla, "Especie")
    ELSE <<>>

\* 2. the options of the species select box
OpcionesEspecie(tabla, filt, columnas) ==
    IF "Especie" \in columnas
    THEN <<ValStr(Todas)>> \o ValoresOrdenados(filt, "Especie")
    ELSE <<>>

\* 2. the species stage
EtapaEspecie(filt, columnas, especie_sel) ==
    IF "Especie" \in columnas
    THEN IF especie_sel # ValStr(Todas)
         THEN Etapa(FiltrarIgual(filt, "Especie", especie_sel))
         ELSE Etapa(filt)
    ELSE Etapa(filt)

\* 3. the options of the variety select box
OpcionesVariedad(tabla, filt, columnas) ==
    IF "Variedad" \in columnas
    THEN <<ValStr(Todas)>> \o ValoresOrdenados(filt, "Variedad")
    ELSE <<>>

\* 3. the variety stage without the test for the column
EtapaVariedad_sin_guarda(filt, columnas, variedad_sel) ==
    IF "Variedad" \notin columnas THEN KeyError
    ELSE IF variedad_sel # ValStr(Todas)
    THEN Etapa(FiltrarIgual(filt, "Variedad", variedad_sel))
    ELSE Etapa(filt)

\* 3. the variety stage
EtapaVariedad(filt, columnas, variedad_sel) ==
    IF "Variedad" \in columnas
    THEN IF variedad_sel # ValStr(Todas)
         THEN Etapa(FiltrarIgual(filt, "Variedad", variedad_sel))
         ELSE Etapa(filt)
    ELSE Etapa(filt)

\* 4. the options of the block multiselect
OpcionesCuartel(tabla, filt, columnas) ==
    IF "Cuartel" \in columnas THEN ValoresOrdenados(filt, "Cuartel") ELSE <<>>

\* 4. the block stage selecting from the unfiltered table
EtapaCuartel_de_tabla(tabla, filt, columnas, cuarteles_sel) ==
    IF "Cuartel" \in columnas
    THEN IF cuarteles_sel # {}
         THEN Etapa(FiltrarIsin(tabla, "Cuartel", cuarteles_sel))
         ELSE Etapa(filt)
    ELSE Etapa(filt)

\* 4. the block stage
EtapaCuartel(tabla, filt, columnas, cuarteles_sel) ==
    IF "Cuartel" \in columnas
    THEN IF cuarteles_sel # {}
         THEN Etapa(FiltrarIsin(filt, "Cuartel", cuarteles_sel))
         ELSE Etapa(filt)
    ELSE Etapa(filt)

\* what a select box can return: one of its options, or, when the box is not
\* drawn, the value the variable keeps
Elegibles(opciones, inicial) == IF opciones = <<>> THEN {inicial} ELSE Range(opciones)

\* df_filtrado = df.copy() taking up the rows the pass before had filtered
df_filtrado_del_pase_anterior(tabla) ==
    IF ~pase.hecho /\ "anterior" \in DOMAIN pase THEN pase.anterior ELSE tabla

\* df_filtrado = df.copy(): every pass starts from the rows of the base table
df_filtrado_inicial(tabla) == tabla

\* crear_sidebar for given widget values: the options offered, the row set
\* after each stage and the returned df_filtrado; an error ends the function
crear_sidebar(tabla, columnas, s) ==
    Sea(EtapaFecha(df_filtrado_inicial(tabla), columnas, s.fechas_sel), LAMBDA e1 :
    Sea(IF e1.error THEN KeyError
        ELSE EtapaEspecie(e1.filas, columnas, s.especie_sel), LAMBDA e2 :
    Sea(IF e2.error THEN KeyError
        ELSE EtapaVariedad(e2.filas, columnas, s.variedad_sel), LAMBDA e3 :
    Sea(IF e3.error THEN KeyError
        ELSE EtapaCuartel(tabla, e3.filas, columnas, s.cuarteles_sel), LAMBDA e4 :
       [hecho |-> TRUE,
        fechas |-> OpcionesFecha(tabla, columnas),
        especies |-> OpcionesEspecie(tabla, e1.filas, columnas),
        variedades |-> OpcionesVariedad(tabla, e2.filas, columnas),
        cuarteles_disponibles |-> OpcionesCuartel(tabla, e3.filas, columnas),
        df_fecha |-> e1.filas,
        df_especie |-> e2.filas,
        df_variedad |-> e3.filas,
        df_filtrado |-> e4.filas,
        error |-> e4.error]))))

----------------------------------------------------------------------------
(* tab_resumen: the split of the filtered rows into the two compared flights *)

SinComparacion == [hecho |-> TRUE, mostrar |-> FALSE, fechas_unicas |-> <<>>,
                   fecha1 |-> <<>>, fecha2 |-> <<>>, df1 |-> <<>>, df2 |-> <<>>]

\* tab_resumen comparing the first flight with the last one
tab_resumen_primero_y_ultimo(filt, columnas, fechas_sel) ==
    Sea(IF "fecha_vuelo" \in columnas THEN FechasOrdenadas(filt) ELSE <<>>,
        LAMBDA fechas_unicas :
    LET mostrar_comparacion == Len(fechas_unicas) >= 2 /\ fechas_sel = Todas
        ultima == fechas_unicas[Len(fechas_unicas)]
    IN IF mostrar_comparacion
       THEN [hecho |-> TRUE, mostrar |-> TRUE, fechas_unicas |-> fechas_unicas,
             fecha1 |-> fechas_unicas[1], fecha2 |-> ultima,
             df1 |-> FiltrarIgualStr(filt, "fecha_vuelo", fechas_unicas[1]),
             df2 |-> FiltrarIgualStr(filt, "fecha_vuelo", ultima)]
       ELSE [SinComparacion EXCEPT !.fechas_unicas = fechas_unicas])

tab_resumen(filt, columnas, fechas_sel) ==
    Sea(IF "fecha_vuelo" \in columnas THEN FechasOrdenadas(filt) ELSE <<>>,
        LAMBDA fechas_unicas :
    LET mostrar_comparacion == Len(fechas_unicas) >= 2 /\ fechas_sel = Todas
    IN IF mostrar_comparacion
       THEN [hecho |-> TRUE, mostrar |-> TRUE, fechas_unicas |-> fechas_unicas,
             fecha1 |-> fechas_unicas[1], fecha2 |-> fechas_unicas[2],
             df1 |-> FiltrarIgualStr(filt, "fecha_vuelo", fechas_unicas[1]),
             df2 |-> FiltrarIgualStr(filt, "fecha_vuelo", fechas_unicas[2])]
       ELSE [SinComparacion EXCEPT !.fechas_unicas = fechas_unicas])

----------------------------------------------------------------------------
(* The table objects of a pass: which object the derived columns of the map  *)
(* builders are written to                                                   *)

\* DataFrame.copy() returning the object it is called on
copy_mismo_objeto(obj) == obj

\* DataFrame.copy(): a new object, apart from the one it is called on
copy(obj) == "copia"

\* df[mask]: a new object holding the selected rows
seleccion(obj) == "seleccion"

\* the object crear_sidebar returns as df_filtrado: the copy of the base table,
\* or the selection of the last stage that filtered
objeto_filtrado(columnas, s) ==
    Sea(copy("df"), LAMBDA o0 :
    Sea(IF "fecha_vuelo" \in columnas /\ s.fechas_sel # Todas
        THEN seleccion(o0) ELSE o0, LAMBDA o1 :
    Sea(IF "Especie" \in columnas /\ s.especie_sel # ValStr(Todas)
        THEN seleccion(o1) ELSE o1, LAMBDA o2 :
    Sea(IF "Variedad" \in columnas /\ s.variedad_sel # ValStr(Todas)
        THEN seleccion(o2) ELSE o2, LAMBDA o3 :
        IF "Cuartel" \in columnas /\ s.cuarteles_sel # {}
        THEN seleccion(o3) ELSE o3))))

\* the columns the map builders assign to df_plot
columnas_derivadas == {"color", "indice_valor", "altura_str", "hover_text", "clase_simple"}

\* the objects the map builders of tab_resumen write the derived columns to:
\* df_plot = df.copy() of each table handed to a builder, the two flights when
\* they are compared and df_filtrado otherwise; a builder returns before
\* df_plot on no rows
objetos_escritos(obj, vuelos, filt) ==
    IF vuelos.mostrar
    THEN { copy(seleccion(obj)) : d \in {vuelos.df1, vuelos.df2} \ {<<>>} }
    ELSE { copy(obj) : d \in {filt} \ {<<>>} }

----------------------------------------------------------------------------
(* The dashboard run: a loaded table, then one pass of main per interaction *)

\* the values the cells of each filter column are drawn from: no date, a date
\* stored as a number, a date stored as a text that sorts before it, and a
\* date of a datetime64 column; two species; a variety and none; two blocks
ValoresDe(c) ==
    CASE c = "fecha_vuelo" -> <<ValNone, ValInt(9), ValStr(<<"1", "0">>), ValFecha(8)>>
      [] c = "Especie"     -> <<ValStr(<<"K", "i", "w", "i">>),
                               ValStr(<<"N", "o", "g", "a", "l">>)>>
      [] c = "Variedad"    -> <<ValNone, ValStr(<<"L", "a", "p", "i", "n", "s">>)>>
      [] c = "Cuartel"     -> <<ValStr(<<"C", "1">>), ValStr(<<"C", "2">>)>>

\* the cells a column can hold in a table with the given columns
CeldasDe(c, columnas) == IF c \in columnas THEN Range(ValoresDe(c)) ELSE {Ausente}

\* the rows a table with the given columns can hold (id apart)
FilasPosibles(columnas) ==
    [fecha_vuelo : CeldasDe("fecha_vuelo", columnas),
     Especie : CeldasDe("Especie", columnas),
     Variedad : CeldasDe("Variedad", columnas),
     Cuartel : CeldasDe("Cuartel", columnas)]

\* the place of a cell among the values of its column (0 for a column the
\* table lacks), and of a row among the rows: used only to list each table
\* once, whatever the order of its rows
Lugar(c, v) ==
    IF v = Ausente THEN 0
    ELSE CHOOSE i \in 1..Len(ValoresDe(c)) : ValoresDe(c)[i] = v

LugarFila(f) ==
    ((Lugar("fecha_vuelo", f.fecha_vuelo) * 5 + Lugar("Especie", f.Especie)) * 5
        + Lugar("Variedad", f.Variedad)) * 5 + Lugar("Cuartel", f.Cuartel)

\* a column of dtype datetime64 holds dates and nulls only; numbers and texts
\* are in a column of another dtype
ColumnaCoherente(f) ==
    \A i, j \in DOMAIN f :
        f[i].fecha_vuelo.k = "datetime" => f[j].fecha_vuelo.k \in {"datetime", "none"}

\* a row of the table: its index and its cells
Fila(i, f) == [id |-> i, fecha_vuelo |-> f.fecha_vuelo, Especie |-> f.Especie,
               Variedad |-> f.Variedad, Cuartel |-> f.Cuartel]

\* the widget variables before the first pass
SelInicial == [hecho |-> FALSE, fechas_sel |-> Todas, especie_sel |-> ValStr(Todas),
               variedad_sel |-> ValStr(Todas), cuarteles_sel |-> {}]

\* main has loaded a non-empty table (it returns at once on an empty one).
\* The stages select rows one by one and keep their order, so a table and its
\* row permutations behave alike: tables are listed with their rows in
\* LugarFila order.
InitFiltro ==
    /\ clase = ValNone
    /\ res = SinResultado
    /\ cols \in SUBSET COLUMNAS_FILTRO
    /\ \E n \in 1..MaxRows :
         \E f \in [1..n -> FilasPosibles(cols)] :
            /\ \A i \in 1..(n - 1) : LugarFila(f[i]) <= LugarFila(f[i + 1])
            /\ ColumnaCoherente(f)
            /\ df = [i \in 1..n |-> Fila(i, f[i])]
    /\ sel = SelInicial
    /\ sb = SinSel
    /\ cmp = SinSel
    /\ an = SinSel
    /\ tend = SinSel
    /\ pase = SinSel

\* an interaction of the user makes the script run again from the top: the
\* previous run's local variables are gone and crear_sidebar starts again from
\* df_filtrado = df.copy(), fechas_sel = 'Todas'. What the pass before had
\* filtered is kept in pase.anterior as history; no code reads it
Interaccion ==
    /\ sb.hecho
    /\ sel' = SelInicial
    /\ sb' = SinSel
    /\ cmp' = SinSel
    /\ pase' = [hecho |-> FALSE, anterior |-> sb.df_filtrado]
    /\ UNCHANGED <<clase, res, df, cols, an, tend>>

\* one pass of main: the user's widget values, each one of the options its
\* box offers in this pass, crear_sidebar and then tab_resumen with its map
\* builders (the table has an index column and its class column, so main
\* does not return at `indice_sel is None` and the maps are drawn)
Pasada ==
    /\ ~sb.hecho
    /\ \E fs \in Elegibles(OpcionesFecha(df, cols), Todas) :
       \E e1 \in {EtapaFecha(df, cols, fs)} :
       \E es \in Elegibles(OpcionesEspecie(df, e1.filas, cols), ValStr(Todas)) :
       \E e2 \in {EtapaEspecie(e1.filas, cols, es)} :
       \E vs \in Elegibles(OpcionesVariedad(df, e2.filas, cols), ValStr(Todas)) :
       \E e3 \in {EtapaVariedad(e2.filas, cols, vs)} :
       \E cs \in SUBSET Range(OpcionesCuartel(df, e3.filas, cols)) :
       \E s \in {[hecho |-> TRUE, fechas_sel |-> fs, especie_sel |-> es,
                   variedad_sel |-> vs, cuarteles_sel |-> cs]} :
       \E r \in {crear_sidebar(df, cols, s)} :
       \E c \in {IF r.error THEN SinSel ELSE tab_resumen(r.df_filtrado, cols, fs)} :
       \E w \in {IF r.error THEN {}
                  ELSE objetos_escritos(objeto_filtrado(cols, s), c, r.df_filtrado)} :
          /\ sel' = s
          /\ sb' = r
          /\ cmp' = c
          /\ pase' = [hecho |-> TRUE, objeto_filtrado |-> objeto_filtrado(cols, s),
                      escritos |-> w, tras_interaccion |-> "anterior" \in DOMAIN pase]
          /\ cols' = IF "df" \in w THEN cols \cup columnas_derivadas ELSE cols
          /\ UNCHANGED <<clase, res, df, an, tend>>

NextFiltro == Pasada \/ Interaccion

SpecFiltro == InitFiltro /\ [][NextFiltro]_vars

----------------------------------------------------------------------------
(* Claims about the classifiers (under SpecClasif) *)

\* the lower-cased text the classifiers look at
TextoClase == Lower(Str(clase))

t_medium_high == <<"m", "e", "d", "i", "u", "m", "-", "h", "i", "g", "h">>

\* all four classifiers gave the Medium-High class
TodosMedioAlto ==
    /\ res.color = COLORES_CLASE["Medio-alto"]
    /\ res.punto = "Medio-alto"
    /\ res.punto_sat = "Medio-alto"
    /\ res.etiqueta = Etiqueta("Medio-Alto")

\* C1 as stated: a class text that is "Medio-alto", "Medio alto" or
\* "Medium-High" in any letter case is given the Medium-High class by every
\* classifier.
C1_VariantesOriginal ==
    (res.hecho /\ clase.k = "str"
        /\ TextoClase \in {t_medio_alto_guion, t_medio_alto_espacio, t_medium_high})
    => TodosMedioAlto

\* C1 amended: a class text that is "Medio-alto" or "Medio alto" in any letter
\* case is given the Medium-High class by every classifier (never Medium, never
\* High); the English "Medium-High" is not recognised: asignar_color_hex and
\* both clasificar_punto give "Sin dato" and etiqueta_corta gives the text back.
C1_VariantesMedioAlto ==
    /\ (res.hecho /\ clase.k = "str"
            /\ TextoClase \in {t_medio_alto_guion, t_medio_alto_espacio})
       => TodosMedioAlto
    /\ (res.hecho /\ clase.k = "str" /\ TextoClase = t_medium_high)
       => /\ res.color = COLORES_CLASE["Sin dato"]
          /\ res.punto = "Sin dato"
          /\ res.punto_sat = "Sin dato"
          /\ res.etiqueta = EtiquetaTexto(clase.s)

\* C1 witness: "mEdIo aLtO" has been classified as Medium-High
C1_Witness ==
    /\ res.hecho
    /\ clase = ValStr(ConEstilo(t_medio_alto_espacio, "aLtErNa"))
    /\ TodosMedioAlto

\* the simple classes whose substring occurs in a lower-cased text
SimplesPresentes(t) ==
    { c \in {"Bajo", "Medio", "Alto"} :
        \/ c = "Bajo" /\ Contiene(t_bajo, t)
        \/ c = "Medio" /\ Contiene(t_medio, t)
        \/ c = "Alto" /\ Contiene(t_alto, t) }

\* C2 as stated: the class asignar_color_hex returns is the first rule, in the
\* order Very-Low, then Medium-High, then the simple forms (Low, Medium, High),
\* whose substring occurs in the lower-cased text, else "Sin dato". The order
\* among the three simple forms is left open here: any simple class whose
\* substring occurs is accepted.
C2_Precedencia ==
    res.hecho =>
        IF Contiene(t_muy_bajo, TextoClase)
        THEN res.color = COLORES_CLASE["Muy bajo"]
        ELSE IF Contiene(t_medio_alto_guion, TextoClase)
                \/ Contiene(t_medio_alto_espacio, TextoClase)
        THEN res.color = COLORES_CLASE["Medio-alto"]
        ELSE IF SimplesPresentes(TextoClase) # {}
        THEN res.color \in { COLORES_CLASE[c] : c \in SimplesPresentes(TextoClase) }
        ELSE res.color = COLORES_CLASE["Sin dato"]

\* C3 as stated: a numeric class code c in 1..5 is given the label at ordinal
\* position c; code 0 and codes above 5 are given "Sin dato".
C3_CodigoOriginal ==
    (res.hecho /\ clase.k = "int")
    => IF clase.n \in 1..Len(ORDEN_CLASES)
       THEN /\ res.color = COLORES_CLASE[ORDEN_CLASES[clase.n]]
            /\ res.punto_sat = ORDEN_CLASES[clase.n]
       ELSE /\ res.color = COLORES_CLASE["Sin dato"]
            /\ res.punto_sat = "Sin dato"

\* C3 amended: there is no numeric-code lookup; every numeric class code (0,
\* 1..5 and above 5, integer or float) is given "Sin dato" by asignar_color_hex
\* and by both clasificar_punto.
C3_CodigoSinDato ==
    (res.hecho /\ clase.k \in {"int", "float"})
    => /\ res.color = COLORES_CLASE["Sin dato"]
       /\ res.punto = "Sin dato"
       /\ res.punto_sat = "Sin dato"

\* C3 witness: the code 3 has been classified, as "Sin dato"
C3_Witness ==
    /\ res.hecho
    /\ clase = ValInt(3)
    /\ res.punto_sat = "Sin dato"
    /\ res.color = COLORES_CLASE["Sin dato"]

\* C4: a missing (None, NaN), empty or unparseable class value (its lower-cased
\* text contains none of "bajo", "medio", "alto") is given "Sin dato" by
\* asignar_color_hex and by clasificar_punto, and every input is given one of
\* the six classes.
C4_SinDato ==
    /\ (res.hecho /\ (EsNulo(clase) \/ SimplesPresentes(TextoClase) = {}))
       => /\ res.color = COLORES_CLASE["Sin dato"]
          /\ res.punto = "Sin dato"
          /\ res.punto_sat = "Sin dato"
    /\ res.hecho
       => /\ res.color \in { COLORES_CLASE[c] : c \in DOMAIN COLORES_CLASE }
          /\ res.punto \in DOMAIN COLORES_CLASE
          /\ res.punto_sat \in DOMAIN COLORES_CLASE

\* C4 witness: a NaN cell has been classified, as "Sin dato"
C4_Witness ==
    /\ res.hecho
    /\ clase = ValNaN
    /\ res.color = COLORES_CLASE["Sin dato"]
    /\ res.punto = "Sin dato"

----------------------------------------------------------------------------
(* Claims about the cascading filter (under SpecFiltro) *)

\* the constraint each stage's widget value puts on a row of the table, as
\* the stage tests it; a stage whose column the table lacks, or left at
\* 'Todas' / empty, puts none
CumpleFecha(r) ==
    \/ "fecha_vuelo" \notin cols
    \/ sel.fechas_sel = Todas
    \/ AsTypeStr(r.fecha_vuelo) = sel.fechas_sel

CumpleEspecie(r) ==
    \/ "Especie" \notin cols
    \/ sel.especie_sel = ValStr(Todas)
    \/ r.Especie = sel.especie_sel

CumpleVariedad(r) ==
    \/ "Variedad" \notin cols
    \/ sel.variedad_sel = ValStr(Todas)
    \/ r.Variedad = sel.variedad_sel

CumpleCuartel(r) ==
    \/ "Cuartel" \notin cols
    \/ sel.cuarteles_sel = {}
    \/ r.Cuartel \in sel.cuarteles_sel

FilasBase == Range(df)

NoNulos(S) == S \ {ValNone, ValNaN}

\* a list without repetitions
SinRepetidos(l) == Cardinality(Range(l)) = Len(l)

\* C5: the options offered at each stage (date, species, variety, blocks) are
\* exactly the distinct non-null values of the stage's column in the rows that
\* satisfy the selections of all previous stages; a value found only in rows
\* an earlier stage excluded is not offered.
C5_OpcionesEnCascada ==
    sb.hecho =>
      /\ "fecha_vuelo" \in cols =>
            /\ Head(sb.fechas) = Todas
            /\ SinRepetidos(sb.fechas)
            /\ Range(Tail(sb.fechas)) =
                 { Str(v) : v \in NoNulos({ r.fecha_vuelo : r \in FilasBase }) }
      /\ "Especie" \in cols =>
            /\ Head(sb.especies) = ValStr(Todas)
            /\ SinRepetidos(sb.especies)
            /\ Range(Tail(sb.especies)) =
                 NoNulos({ r.Especie : r \in { x \in FilasBase : CumpleFecha(x) } })
      /\ "Variedad" \in cols =>
            /\ Head(sb.variedades) = ValStr(Todas)
            /\ SinRepetidos(sb.variedades)
            /\ Range(Tail(sb.variedades)) =
                 NoNulos({ r.Variedad : r \in { x \in FilasBase :
                                CumpleFecha(x) /\ CumpleEspecie(x) } })
      /\ "Cuartel" \in cols =>
            /\ SinRepetidos(sb.cuarteles_disponibles)
            /\ Range(sb.cuarteles_disponibles) =
                 NoNulos({ r.Cuartel : r \in { x \in FilasBase :
                                CumpleFecha(x) /\ CumpleEspecie(x) /\ CumpleVariedad(x) } })

\* C5 witness: a date is selected, and the species of a row of another date
\* is not among the species offered
C5_Witness ==
    /\ sb.hecho
    /\ cols = COLUMNAS_FILTRO
    /\ sel.fechas_sel # Todas
    /\ \E r \in FilasBase : ~CumpleFecha(r) /\ r.Especie \notin Range(sb.especies)

\* C6: a stage left at 'Todas', and the block multiselect left empty, passes
\* its rows through unchanged, rows with a null in the stage's column included.
C6_TodasNoFiltra ==
    sb.hecho =>
      /\ sel.fechas_sel = Todas => sb.df_fecha = df
      /\ sel.especie_sel = ValStr(Todas) => sb.df_especie = sb.df_fecha
      /\ sel.variedad_sel = ValStr(Todas) => sb.df_variedad = sb.df_especie
      /\ sel.cuarteles_sel = {} => sb.df_filtrado = sb.df_variedad

\* C6 witness: every stage was left at 'Todas' / empty and a row without date
\* and one without variety came through
C6_Witness ==
    /\ sb.hecho
    /\ cols = COLUMNAS_FILTRO
    /\ sel.fechas_sel = Todas /\ sel.especie_sel = ValStr(Todas)
    /\ sel.variedad_sel = ValStr(Todas) /\ sel.cuarteles_sel = {}
    /\ \E r \in Range(sb.df_filtrado) : EsNulo(r.fecha_vuelo)
    /\ \E r \in Range(sb.df_filtrado) : EsNulo(r.Variedad)

\* the stage numbered k applied to a row set with the widget values of the pass
AplicarEtapa(k, filas) ==
    CASE k = 1 -> EtapaFecha(filas, cols, sel.fechas_sel).filas
      [] k = 2 -> EtapaEspecie(filas, cols, sel.especie_sel).filas
      [] k = 3 -> EtapaVariedad(filas, cols, sel.variedad_sel).filas
      [] k = 4 -> EtapaCuartel(df, filas, cols, sel.cuarteles_sel).filas

\* the four stages applied to the base table in the order p
EnOrden(p) ==
    Sea(AplicarEtapa(p[1], df), LAMBDA f1 :
    Sea(AplicarEtapa(p[2], f1), LAMBDA f2 :
    Sea(AplicarEtapa(p[3], f2), LAMBDA f3 : AplicarEtapa(p[4], f3))))

\* the orders the four stages can be applied in
Ordenes == Permutations(1..4)

\* C7: the returned row set is exactly the set of base rows that satisfy every
\* active constraint (date equality, species equality, variety equality, block
\* membership), and the stages applied in any order with the same widget
\* values give the same rows.
C7_ResultadoConmutativo ==
    sb.hecho =>
      /\ Range(sb.df_filtrado) =
            { r \in FilasBase : CumpleFecha(r) /\ CumpleEspecie(r)
                                /\ CumpleVariedad(r) /\ CumpleCuartel(r) }
      /\ \A p \in Ordenes : EnOrden(p) = sb.df_filtrado

\* C7 witness: a date and a block set are both selected and the result is a
\* non-empty part of the table
C7_Witness ==
    /\ sb.hecho
    /\ sel.fechas_sel # Todas
    /\ sel.cuarteles_sel # {}
    /\ Len(sb.df_filtrado) >= 1
    /\ Len(sb.df_filtrado) < Len(df)

\* C8: each stage applied a second time, with the same widget value, to the
\* rows it returned, returns the same rows.
C8_EtapaIdempotente ==
    sb.hecho =>
      /\ AplicarEtapa(1, sb.df_fecha) = sb.df_fecha
      /\ AplicarEtapa(2, sb.df_especie) = sb.df_especie
      /\ AplicarEtapa(3, sb.df_variedad) = sb.df_variedad
      /\ AplicarEtapa(4, sb.df_filtrado) = sb.df_filtrado

\* C8 witness: a species is selected and the species stage kept two rows
C8_Witness ==
    /\ sb.hecho
    /\ sel.especie_sel # ValStr(Todas)
    /\ Len(sb.df_especie) >= 2
    /\ AplicarEtapa(2, sb.df_especie) = sb.df_especie

\* C9: a stage whose column the table lacks is skipped: it draws no widget,
\* excludes no row and raises nothing, and the stages of the columns the table
\* has are applied all the same.
C9_ColumnaAusente ==
    sb.hecho =>
      /\ ~sb.error
      /\ "fecha_vuelo" \notin cols => sb.fechas = <<>> /\ sb.df_fecha = df
      /\ "Especie" \notin cols => sb.especies = <<>> /\ sb.df_especie = sb.df_fecha
      /\ "Variedad" \notin cols => sb.variedades = <<>> /\ sb.df_variedad = sb.df_especie
      /\ "Cuartel" \notin cols =>
            sb.cuarteles_disponibles = <<>> /\ sb.df_filtrado = sb.df_variedad
      /\ cols # COLUMNAS_FILTRO =>
            \A r \in FilasBase :
                r \in Range(sb.df_filtrado) <=>
                    /\ ("fecha_vuelo" \in cols => CumpleFecha(r))
                    /\ ("Especie" \in cols => CumpleEspecie(r))
                    /\ ("Variedad" \in cols => CumpleVariedad(r))
                    /\ ("Cuartel" \in cols => CumpleCuartel(r))

\* C9 witness: the table has no Variedad column, a species is selected, and
\* the pass ended without error on a non-empty part of the table
C9_Witness ==
    /\ sb.hecho
    /\ "Variedad" \notin cols
    /\ "Especie" \in cols
    /\ sel.especie_sel # ValStr(Todas)
    /\ ~sb.error
    /\ Len(sb.df_filtrado) >= 1
    /\ Len(sb.df_filtrado) < Len(df)

\* C10 as stated: the date comparisons of crear_sidebar and of the flight
\* split of tab_resumen compare the same string form on both sides: the rows
\* selected are exactly those whose date has the string form selected,
\* whatever type it is stored as, and no offered date selects an empty set.
C10_FechaComoTexto ==
    (sb.hecho /\ ~sb.error) =>
      /\ sel.fechas_sel # Todas =>
            /\ sb.df_fecha # <<>>
            /\ \A r \in FilasBase :
                  r \in Range(sb.df_fecha) <=> Str(r.fecha_vuelo) = sel.fechas_sel
      /\ \A i \in 2..Len(sb.fechas) :
            FiltrarIgualStr(df, "fecha_vuelo", sb.fechas[i]) # <<>>
      /\ cmp.mostrar =>
            /\ cmp.df1 # <<>>
            /\ cmp.df2 # <<>>
            /\ \A r \in Range(sb.df_filtrado) :
                  /\ r \in Range(cmp.df1) <=> Str(r.fecha_vuelo) = cmp.fecha1
                  /\ r \in Range(cmp.df2) <=> Str(r.fecha_vuelo) = cmp.fecha2

----------------------------------------------------------------------------
(* The figures computed over a row set: generar_analisis_automatico,         *)
(* mostrar_kpis, crear_grafico_distribucion and the pivot of tab_comparacion *)

\* most rows of the row set handed to the analysis
MaxMuestra == 3

\* a / b of two integers, b > 0, kept exact
Razon(a, b) == [num |-> a, den |-> b]

IgualRazon(r, q) == r.num * q.den = q.num * r.den

\* round() of the exact a / b, b > 0, to an integer: numpy rounds half to even
RedondearPar(a, b) ==
    LET q == a \div b
        r == a - q * b
    IN IF 2 * r < b THEN q
       ELSE IF 2 * r > b THEN q + 1
       ELSE IF q % 2 = 0 THEN q ELSE q + 1

\* sum of f[i] over the indices i in S
RECURSIVE Suma(_, _)
Suma(S, f) ==
    IF S = {} THEN 0
    ELSE LET x == CHOOSE y \in S : TRUE IN f[x] + Suma(S \ {x}, f)

\* sum(1 for x in df[col_clase] if P(x))
Cuenta(filas, P(_)) == Cardinality({ i \in DOMAIN filas : P(filas[i].clase) })

\* the outcome of a division the code does not guard: numpy's result, which
\* is infinite or not a number, or Python's ZeroDivisionError
MenosInf == [k |-> "-inf", d |-> 0]
NoNumero == [k |-> "nan", d |-> 0]
ZeroDivisionError == [k |-> "ZeroDivisionError", d |-> 0]
Numero(d) == [k |-> "num", d |-> d]

\* pct_sanos thresholds of generar_analisis_automatico
estado_general(pct_sanos) ==
    IF pct_sanos.num >= 80 * pct_sanos.den THEN "EXCELENTE"
    ELSE IF pct_sanos.num >= 60 * pct_sanos.den THEN "BUENO"
    ELSE IF pct_sanos.num >= 40 * pct_sanos.den THEN "MODERADO"
    ELSE IF pct_sanos.num >= 20 * pct_sanos.den THEN "BAJO"
    ELSE "CRITICO"

\* the rows of a block: df.groupby('Cuartel') leaves out the rows without block
IndicesDe(filas, cuartel) == { i \in DOMAIN filas : filas[i].Cuartel = cuartel }

\* Análisis por cuartel: the blocks whose mean (rounded to 3 decimals) is below
\* the overall mean minus the sample standard deviation, each with its
\* deviation in percent of the overall mean, rounded to 1 decimal and held in
\* tenths. Index values are integers in thousandths. With S the sum, n the
\* count and Q the sum of squares, std^2 = (n Q - S^2) / (n (n - 1)); for
\* n < 2 std is NaN and no block is below.
cuarteles_problematicos(filas, columnas) ==
    IF "Cuartel" \notin columnas THEN {}
    ELSE
    LET n == Len(filas)
        S == Suma(DOMAIN filas, [i \in DOMAIN filas |-> filas[i].valor])
        Q == Suma(DOMAIN filas, [i \in DOMAIN filas |-> filas[i].valor * filas[i].valor])
        nombres == { filas[i].Cuartel : i \in DOMAIN filas } \ {ValNone, ValNaN}
        media(c) == RedondearPar(Suma(IndicesDe(filas, c),
                                      [i \in DOMAIN filas |-> filas[i].valor]),
                                 Cardinality(IndicesDe(filas, c)))
        debajo(c) == LET D == S - n * media(c)
                     IN n >= 2 /\ D > 0 /\ n * (n * Q - S * S) < (n - 1) * D * D
        diferencia(c) ==
            IF S = 0 THEN MenosInf
            ELSE IF S > 0 THEN Numero(RedondearPar(1000 * (n * media(c) - S), S))
            ELSE Numero(RedondearPar(1000 * (S - n * media(c)), 0 - S))
    IN { [nombre |-> c, media |-> media(c), n |-> Cardinality(IndicesDe(filas, c)),
          diferencia |-> diferencia(c)] : c \in { x \in nombres : debajo(x) } }

\* generar_analisis_automatico on a table that has the index column: the five
\* counters, the percentages, the blocks below the mean, and how the function
\* ends; the 'Monitorear' percentage n_medio / n_total is not guarded
generar_analisis_automatico(filas, columnas) ==
    LET n_total == Len(filas)
        hay == "clase" \in columnas
        n_muy_bajo == IF hay THEN Cuenta(filas, LAMBDA x : En(t_muy_bajo, x)) ELSE 0
        n_bajo == IF hay
                  THEN Cuenta(filas, LAMBDA x : En(t_bajo, x) /\ ~En(t_muy, x)) ELSE 0
        n_medio == IF hay
                   THEN Cuenta(filas, LAMBDA x : En(t_medio, x) /\ ~En(t_alto, x)) ELSE 0
        n_medio_alto == IF hay THEN Cuenta(filas, cuenta_medio_alto) ELSE 0
        n_alto == IF hay THEN Cuenta(filas, cuenta_alto) ELSE 0
        pct_sanos == IF hay /\ n_total > 0
                     THEN Razon((n_alto + n_medio_alto) * 100, n_total) ELSE Razon(0, 1)
        pct_problematicos == IF hay /\ n_total > 0
                             THEN Razon((n_muy_bajo + n_bajo) * 100, n_total)
                             ELSE Razon(0, 1)
    IN [retorno |-> IF n_total = 0 THEN "ZeroDivisionError" ELSE "True",
        n_total |-> n_total,
        n_muy_bajo |-> n_muy_bajo, n_bajo |-> n_bajo, n_medio |-> n_medio,
        n_medio_alto |-> n_medio_alto, n_alto |-> n_alto,
        pct_sanos |-> pct_sanos,
        pct_problematicos |-> pct_problematicos,
        pct_medio |-> IF n_total = 0 THEN Razon(0, 0) ELSE Razon(n_medio * 100, n_total),
        cuarteles_problematicos |-> cuarteles_problematicos(filas, columnas),
        estado_general |-> estado_general(pct_sanos)]

\* the '% Sanos' figure of mostrar_kpis: the outcomes it can have. Over no
\* rows the sum of an empty Series is divided by len(df) = 0: Python's
\* ZeroDivisionError if the sum is an int, nan if it is a numpy float
SinFigura == [k |-> "omitido", d |-> 0]

mostrar_kpis(filas, columnas) ==
    IF "clase" \notin columnas THEN {SinFigura}
    ELSE IF Len(filas) = 0 THEN {ZeroDivisionError, NoNumero}
    ELSE {[k |-> "num", d |-> 0,
           pct |-> Razon(Cuenta(filas, EsSanoKpi) * 100, Len(filas))]}

\* df[col_clase].value_counts(): the rows of each distinct class value, the
\* rows without class value left out
value_counts(filas) ==
    LET clases == { filas[i].clase : i \in DOMAIN filas } \ {ValNone, ValNaN}
    IN [c \in clases |-> Cardinality({ i \in DOMAIN filas : filas[i].clase = c })]

\* the sum of a table of counts
Total(conteo) == Suma(DOMAIN conteo, conteo)

\* crear_grafico_distribucion: Cantidad and Porcentaje (rounded to 1 decimal,
\* held in tenths) of each class value; no figure without the class column
crear_grafico_distribucion(filas, columnas) ==
    IF "clase" \notin columnas THEN [figura |-> FALSE]
    ELSE LET conteo == value_counts(filas)
         IN [figura |-> TRUE,
             Cantidad |-> conteo,
             suma |-> Total(conteo),
             Porcentaje |-> [c \in DOMAIN conteo |->
                                RedondearPar(conteo[c] * 1000, Total(conteo))]]

\* tab_comparacion: the row of pivot and of pivot_pct of one flight, whose
\* rows are filas; groupby leaves out the rows without class value, and
\* raises KeyError without the class column
pivot_pct(filas, columnas) ==
    IF "clase" \notin columnas THEN [error |-> "KeyError"]
    ELSE LET pivot == value_counts(filas)
         IN [error |-> "",
             pivot |-> pivot,
             suma |-> Total(pivot),
             pct |-> [c \in DOMAIN pivot |-> Razon(pivot[c] * 100, Total(pivot))]]

----------------------------------------------------------------------------
(* The analysis run: a row set, then every figure computed over it *)

\* the optional columns the figures look at
COLUMNAS_ANALISIS == {"clase", "Cuartel"}

\* the class values, index values (in thousandths) and blocks of the rows
ClasesMuestra ==
    <<ValStr(<<"A", "l", "t", "o">>), ValStr(<<"M", "e", "d", "i", "o", "-", "a", "l", "t", "o">>), ValStr(<<"M", "e", "d", "i", "o">>), ValStr(<<"B", "a", "j", "o">>),
      ValStr(<<"M", "u", "y", " ", "b", "a", "j", "o">>), ValStr(<<"M", "e", "d", "i", "o", "-", "b", "a", "j", "o">>), ValNone>>

ValoresMuestra == <<0 - 200, 100>>

CuartelesMuestra == <<ValStr(<<"C", "1">>), ValStr(<<"C", "2">>)>>

\* the rows a row set with the given columns can hold
FilasMuestra(columnas) ==
    [clase : IF "clase" \in columnas THEN Range(ClasesMuestra) ELSE {Ausente},
     valor : Range(ValoresMuestra),
     Cuartel : IF "Cuartel" \in columnas THEN Range(CuartelesMuestra) ELSE {Ausente}]

\* the place of a row among the rows: used only to list each row set once,
\* whatever the order of its rows (every figure is a count or a sum)
LugarEn(l, v) ==
    IF \E i \in 1..Len(l) : l[i] = v THEN CHOOSE i \in 1..Len(l) : l[i] = v ELSE 0

LugarMuestra(f) ==
    (LugarEn(ClasesMuestra, f.clase) * 3 + LugarEn(ValoresMuestra, f.valor)) * 3
        + LugarEn(CuartelesMuestra, f.Cuartel)

\* a row set of 0..MaxMuestra rows reaches the figures (zero rows included:
\* the functions are called by tab_resumen with whatever crear_sidebar returns)
InitAnalisis ==
    /\ clase = ValNone
    /\ res = SinResultado
    /\ df = SinTabla
    /\ cols = {}
    /\ sel = SinSel
    /\ sb = SinSel
    /\ cmp = SinSel
    /\ tend = SinSel
    /\ pase = SinSel
    /\ \E columnas \in SUBSET COLUMNAS_ANALISIS :
       \E n \in 0..MaxMuestra :
       \E f \in [1..n -> FilasMuestra(columnas)] :
          /\ \A i \in 1..(n - 1) : LugarMuestra(f[i]) <= LugarMuestra(f[i + 1])
          /\ an = [hecho |-> FALSE, cols |-> columnas, filas |-> f]

\* the figures of one row set: the KPI row, the automatic analysis, the
\* distribution chart (tab_resumen) and the class pivot (tab_comparacion)
Analizar ==
    /\ ~an.hecho
    /\ \E kpi \in mostrar_kpis(an.filas, an.cols) :
       \E auto \in {generar_analisis_automatico(an.filas, an.cols)} :
          an' = [hecho |-> TRUE, cols |-> an.cols, filas |-> an.filas,
                 kpi |-> kpi,
                 auto |-> auto,
                 dist |-> crear_grafico_distribucion(an.filas, an.cols),
                 pivot |-> pivot_pct(an.filas, an.cols)]
    /\ UNCHANGED <<clase, res, df, cols, sel, sb, cmp, tend, pase>>

NextAnalisis == Analizar

SpecAnalisis == InitAnalisis /\ [][NextAnalisis]_vars

----------------------------------------------------------------------------
(* Claims about the figures over a row set (under SpecAnalisis) *)

\* the rows of the analysed row set whose class, as clasificar_punto gives
\* it, is one of the given classes
FilasDeClase(clases) ==
    { i \in DOMAIN an.filas : clasificar_punto(an.filas[i].clase) \in clases }

\* C11 as stated: over a non-empty row set the healthy percentage (of the
\* automatic analysis and of the KPI row) is the number of rows whose class is
\* Alto or Medio-alto over the number of rows, and the critical percentage is
\* the number of rows whose class is Muy bajo or Bajo over the number of rows.
C11_Fracciones ==
    (an.hecho /\ "clase" \in an.cols /\ Len(an.filas) > 0) =>
      /\ IgualRazon(an.auto.pct_sanos,
            Razon(Cardinality(FilasDeClase({"Alto", "Medio-alto"})) * 100, Len(an.filas)))
      /\ IgualRazon(an.auto.pct_problematicos,
            Razon(Cardinality(FilasDeClase({"Muy bajo", "Bajo"})) * 100, Len(an.filas)))
      /\ an.kpi.k = "num"
      /\ IgualRazon(an.kpi.pct,
            Razon(Cardinality(FilasDeClase({"Alto", "Medio-alto"})) * 100, Len(an.filas)))

\* C12 as stated: over a non-empty row set without missing-class rows (no row
\* classified "Sin dato") the five counters of generar_analisis_automatico add
\* up to the number of rows, and the three displayed percentages (healthy,
\* monitor, critical) add up to 100.
C12_Particion ==
    (an.hecho /\ "clase" \in an.cols /\ Len(an.filas) > 0
        /\ FilasDeClase({"Sin dato"}) = {}) =>
      /\ an.auto.n_muy_bajo + an.auto.n_bajo + an.auto.n_medio
            + an.auto.n_medio_alto + an.auto.n_alto = an.auto.n_total
      /\ an.auto.pct_sanos.den = an.auto.n_total
      /\ an.auto.pct_medio.den = an.auto.n_total
      /\ an.auto.pct_problematicos.den = an.auto.n_total
      /\ an.auto.pct_sanos.num + an.auto.pct_medio.num + an.auto.pct_problematicos.num
            = 100 * an.auto.n_total

\* C17 as stated: rows without class value are counted in the total: the KPI
\* healthy percentage, the percentages of crear_grafico_distribucion and the
\* per-flight class percentages of tab_comparacion all have the number of rows
\* of the row set as denominator.
C17_DenominadorTotal ==
    (an.hecho /\ "clase" \in an.cols /\ Len(an.filas) > 0) =>
      /\ an.kpi.k = "num" /\ an.kpi.pct.den = Len(an.filas)
      /\ an.dist.suma = Len(an.filas)
      /\ an.pivot.suma = Len(an.filas)

\* C18 as stated: no ratio raises on a zero denominator: over every row set,
\* the empty one included, generar_analisis_automatico returns and
\* mostrar_kpis shows a number or leaves the figure out, and over the empty
\* row set the percentages of the analysis are 0.
C18_SinDivisionPorCero ==
    an.hecho =>
      /\ an.auto.retorno = "True"
      /\ an.kpi.k \in {"num", "omitido"}
      /\ Len(an.filas) = 0 =>
            /\ IgualRazon(an.auto.pct_sanos, Razon(0, 1))
            /\ IgualRazon(an.auto.pct_problematicos, Razon(0, 1))

\* the sum of the index values of the analysed row set (its mean times its
\* number of rows)
SumaValores == Suma(DOMAIN an.filas, [i \in DOMAIN an.filas |-> an.filas[i].valor])

\* C19 as stated: for each block reported as under-performing the deviation is
\* a percentage of the overall mean, (block mean - mean) / mean * 100, and
\* when the overall mean is zero it is reported as not applicable instead of
\* being computed by a division by zero.
C19_DesviacionPorcentual ==
    an.hecho =>
      \A c \in an.auto.cuarteles_problematicos :
         IF SumaValores = 0
         THEN c.diferencia.k = "N/A"
         ELSE /\ c.diferencia.k = "num"
              /\ c.diferencia.d =
                    IF SumaValores > 0
                    THEN RedondearPar(1000 * (Len(an.filas) * c.media - SumaValores),
                                      SumaValores)
                    ELSE RedondearPar(1000 * (SumaValores - Len(an.filas) * c.media),
                                      0 - SumaValores)

----------------------------------------------------------------------------
(* generar_analisis_comparativo: the change between two flights and its trend *)

\* largest flight mean tried, in hundredths of the index
MaxMedia == 110

\* a quotient compared with an integer
MayorQue(r, k) == r.num > k * r.den
MenorQue(r, k) == r.num < k * r.den
IgualA(r, k) == r.num = k * r.den

\* cambio / media1 * 100 without the test of media1
cambio_pct_sin_guarda(media1, media2) ==
    IF media1 > 0 THEN Razon((media2 - media1) * 100, media1)
    ELSE Razon((media1 - media2) * 100, 0 - media1)

\* cambio_pct = (cambio / media1 * 100) if media1 != 0 else 0, kept exact
\* with a positive denominator
cambio_pct(media1, media2) ==
    IF media1 # 0
    THEN IF media1 > 0 THEN Razon((media2 - media1) * 100, media1)
         ELSE Razon((media1 - media2) * 100, 0 - media1)
    ELSE Razon(0, 1)

\* Determinar tendencia with the two improvement labels exchanged
tendencia_cambiada(pct) ==
    IF MayorQue(pct, 5) THEN "LEVE MEJORA"
    ELSE IF MayorQue(pct, 1) THEN "MEJORA SIGNIFICATIVA"
    ELSE IF MayorQue(pct, 0 - 1) THEN "ESTABLE"
    ELSE IF MayorQue(pct, 0 - 5) THEN "LEVE DETERIORO"
    ELSE "DETERIORO SIGNIFICATIVO"

\* Determinar tendencia
tendencia(pct) ==
    IF MayorQue(pct, 5) THEN "MEJORA SIGNIFICATIVA"
    ELSE IF MayorQue(pct, 1) THEN "LEVE MEJORA"
    ELSE IF MayorQue(pct, 0 - 1) THEN "ESTABLE"
    ELSE IF MayorQue(pct, 0 - 5) THEN "LEVE DETERIORO"
    ELSE "DETERIORO SIGNIFICATIVO"

\* Interpretación: the message shown under the table
interpretacion(pct) ==
    IF MayorQue(pct, 5) THEN "mejora significativa"
    ELSE IF MayorQue(pct, 1) THEN "leve mejora"
    ELSE IF MenorQue(pct, 0 - 5) THEN "deterioro significativo"
    ELSE IF MenorQue(pct, 0 - 1) THEN "leve deterioro"
    ELSE "relativamente estable"

\* generar_analisis_comparativo on a table where both flights have rows:
\* from the two flight means to the change, its percentage, the trend and the
\* message
generar_analisis_comparativo(media1, media2) ==
    Sea(cambio_pct(media1, media2), LAMBDA pct :
        [hecho |-> TRUE, media1 |-> media1, media2 |-> media2,
         cambio |-> media2 - media1,
         cambio_pct |-> pct,
         tendencia |-> tendencia(pct),
         interpretacion |-> interpretacion(pct),
         retorno |-> IF pct.den = 0 THEN "ZeroDivisionError" ELSE "True"])

\* the means of the first flight, in hundredths: negative, zero, and the 0.50
\* and 1.00 whose percentages fall on whole numbers
MediasPrimerVuelo == {0 - 100, 0, 50, 100}

InitTendencia ==
    /\ clase = ValNone
    /\ res = SinResultado
    /\ df = SinTabla
    /\ cols = {}
    /\ sel = SinSel
    /\ sb = SinSel
    /\ cmp = SinSel
    /\ an = SinSel
    /\ pase = SinSel
    /\ \E m1 \in MediasPrimerVuelo :
       \E m2 \in (0 - MaxMedia)..MaxMedia :
          tend = [hecho |-> FALSE, media1 |-> m1, media2 |-> m2]

Comparar ==
    /\ ~tend.hecho
    /\ tend' = generar_analisis_comparativo(tend.media1, tend.media2)
    /\ UNCHANGED <<clase, res, df, cols, sel, sb, cmp, an, pase>>

NextTendencia == Comparar

SpecTendencia == InitTendencia /\ [][NextTendencia]_vars

----------------------------------------------------------------------------
(* Claims about the comparison of two flights (under SpecTendencia) *)

\* C13: delta is mean(date2) - mean(date1) and delta_pct is delta /
\* mean(date1) * 100; with mean(date1) = 0 nothing is raised and delta_pct
\* is 0.
C13_CambioPorcentual ==
    tend.hecho =>
      /\ tend.retorno = "True"
      /\ tend.cambio = tend.media2 - tend.media1
      /\ tend.cambio_pct.den > 0
      /\ tend.media1 # 0 =>
            tend.cambio_pct.num * tend.media1 = tend.cambio * 100 * tend.cambio_pct.den
      /\ tend.media1 = 0 => tend.cambio_pct.num = 0

\* C13 witness: the first flight's mean is 0, the second's is not, and the
\* comparison is shown with a change of 0 %
C13_Witness ==
    /\ tend.hecho
    /\ tend.media1 = 0
    /\ tend.media2 = 55
    /\ tend.retorno = "True"
    /\ IgualA(tend.cambio_pct, 0)

\* C14: every delta_pct is given one of the five trends, in order of
\* delta_pct: above +5 significant improvement, between +1 and +5 slight
\* improvement, between -1 and +1 stable, between -5 and -1 slight decline,
\* below -5 significant decline (at a threshold, one of the two trends that
\* meet there).
C14_Bandas ==
    tend.hecho =>
      LET p == tend.cambio_pct
          t == tend.tendencia
      IN /\ t \in {"MEJORA SIGNIFICATIVA", "LEVE MEJORA", "ESTABLE",
                   "LEVE DETERIORO", "DETERIORO SIGNIFICATIVO"}
         /\ MayorQue(p, 5) => t = "MEJORA SIGNIFICATIVA"
         /\ IgualA(p, 5) => t \in {"MEJORA SIGNIFICATIVA", "LEVE MEJORA"}
         /\ (MayorQue(p, 1) /\ MenorQue(p, 5)) => t = "LEVE MEJORA"
         /\ IgualA(p, 1) => t \in {"LEVE MEJORA", "ESTABLE"}
         /\ (MayorQue(p, 0 - 1) /\ MenorQue(p, 1)) => t = "ESTABLE"
         /\ IgualA(p, 0 - 1) => t \in {"ESTABLE", "LEVE DETERIORO"}
         /\ (MayorQue(p, 0 - 5) /\ MenorQue(p, 0 - 1)) => t = "LEVE DETERIORO"
         /\ IgualA(p, 0 - 5) => t \in {"LEVE DETERIORO", "DETERIORO SIGNIFICATIVO"}
         /\ MenorQue(p, 0 - 5) => t = "DETERIORO SIGNIFICATIVO"

\* C14 witness: means 0.50 then 0.55 give delta_pct 10 and a significant
\* improvement
C14_Witness ==
    /\ tend.hecho
    /\ tend.media1 = 50
    /\ tend.media2 = 55
    /\ IgualA(tend.cambio_pct, 10)
    /\ tend.tendencia = "MEJORA SIGNIFICATIVA"

\* C15 as stated: at each threshold the tie goes to the trend nearer zero:
\* delta_pct exactly +1 and exactly -1 are stable, exactly +5 is a slight
\* improvement and exactly -5 a slight decline.
C15_Empates ==
    tend.hecho =>
      /\ IgualA(tend.cambio_pct, 1) => tend.tendencia = "ESTABLE"
      /\ IgualA(tend.cambio_pct, 0 - 1) => tend.tendencia = "ESTABLE"
      /\ IgualA(tend.cambio_pct, 5) => tend.tendencia = "LEVE MEJORA"
      /\ IgualA(tend.cambio_pct, 0 - 5) => tend.tendencia = "LEVE DETERIORO"

----------------------------------------------------------------------------
(* The pass of main over the four tabs: which sections each tab renders and  *)
(* whether it raises, for a table with some optional columns and with or     *)
(* without block polygons                                                    *)

\* Python's None
Ninguno == [k |-> "None"]

\* the optional columns of the point table; the index column, lat and lon are
\* always there
COLUMNAS_OPCIONALES == {"fecha_vuelo", "clase", "Cuartel", "Especie", "Variedad", "altura_m"}

\* cargar_poligonos letting the exception of an unreadable file through
cargar_poligonos_sin_try(archivo) ==
    IF archivo.estado = "ausente" THEN Ninguno
    ELSE IF archivo.estado = "ilegible" THEN [k |-> "Exception"]
    ELSE [k |-> "gdf", poligonos |-> archivo.poligonos]

\* cargar_poligonos: None for a file that does not exist, None (after a
\* warning) for one that cannot be read or has no CRS, else the polygons
cargar_poligonos(archivo) ==
    IF archivo.estado = "ausente" THEN Ninguno
    ELSE IF archivo.estado = "ilegible" THEN Ninguno
    ELSE [k |-> "gdf", poligonos |-> archivo.poligonos]

\* df['Cuartel'].unique() if 'Cuartel' in df.columns else []
cuarteles_en_datos(filas, columnas) ==
    IF "Cuartel" \in columnas THEN { filas[i].Cuartel : i \in DOMAIN filas } ELSE {}

\* gdf_poligonos[gdf_poligonos['Cuartel'].isin(cuarteles_en_datos)]
gdf_filtrado(filas, columnas, gdf) ==
    SelectSeq(gdf.poligonos, LAMBDA p : p.Cuartel \in cuarteles_en_datos(filas, columnas))

\* obtener_info_superficie: None without polygons or without a polygon of a
\* block of the rows, else the total area and the trees per hectare
obtener_info_superficie(filas, columnas, gdf) ==
    IF gdf = Ninguno THEN Ninguno
    ELSE Sea(gdf_filtrado(filas, columnas, gdf), LAMBDA gf :
         IF Len(gf) = 0 THEN Ninguno
         ELSE Sea(Suma(DOMAIN gf, [i \in DOMAIN gf |-> gf[i].Superficie_ha]),
                  LAMBDA superficie_total :
              [k |-> "info",
               superficie_total |-> superficie_total,
               n_arboles |-> Len(filas),
               arboles_por_ha |-> IF superficie_total > 0
                                  THEN Razon(Len(filas), superficie_total)
                                  ELSE Razon(0, 1),
               n_cuarteles |-> Len(gf),
               gdf |-> gf]))

\* mostrar_kpis: the row of metrics drawn, with or without surface and density
kpis(info_superficie) ==
    IF info_superficie # Ninguno THEN "con_superficie" ELSE "sin_superficie"

\* crear_mapa_plotly_satelite: no figure without the class column or without
\* rows; the block outlines are drawn only with polygons of blocks of the rows
crear_mapa_plotly_satelite(filas, columnas, gdf) ==
    IF "clase" \notin columnas \/ Len(filas) = 0 THEN Ninguno
    ELSE [k |-> "fig",
          contornos |-> /\ gdf # Ninguno
                        /\ Len(gdf.poligonos) > 0
                        /\ Len(gdf_filtrado(filas, columnas, gdf)) > 0]

\* the block summary table of tab_resumen, drawn only with a surface
\* information and polygons: one line per block of the rows
tabla_resumen_cuarteles(filas, columnas, info_sup, gdf) ==
    IF info_sup # Ninguno /\ gdf # Ninguno
    THEN IF "Cuartel" \notin columnas
         THEN [error |-> "KeyError", lineas |-> 0]
         ELSE [error |-> "", lineas |-> Cardinality(Unicos(filas, "Cuartel"))]
    ELSE [error |-> "", lineas |-> 0]

\* the sections tab_resumen draws: the KPI rows, the maps, the class
\* distributions, the automatic or the comparative analysis and the block
\* summary table
secciones_resumen(filas, columnas, fechas_sel, gdf) ==
    Sea(tab_resumen(filas, columnas, fechas_sel), LAMBDA vuelos :
    Sea(obtener_info_superficie(filas, columnas, gdf), LAMBDA info_sup :
    Sea(tabla_resumen_cuarteles(filas, columnas, info_sup, gdf), LAMBDA tabla :
    Sea(IF vuelos.mostrar THEN <<vuelos.df1, vuelos.df2>> ELSE <<filas>>,
        LAMBDA partes :
        [error |-> tabla.error,
         info_sup |-> info_sup,
         kpis |-> [i \in DOMAIN partes |->
                     kpis(obtener_info_superficie(partes[i], columnas, gdf))],
         mapas |-> [i \in DOMAIN partes |->
                     crear_mapa_plotly_satelite(partes[i], columnas, gdf)],
         distribuciones |-> [i \in DOMAIN partes |-> "clase" \in columnas],
         analisis_automatico |-> ~vuelos.mostrar,
         analisis_comparativo |-> vuelos.mostrar,
         tabla_cuarteles |-> tabla.lineas > 0]))))

\* tab_analisis: the histograms are always drawn, the box plots by block only
\* with the Cuartel column
tab_analisis(filas, columnas, fechas_sel) ==
    [error |-> "",
     histogramas |-> IF tab_resumen(filas, columnas, fechas_sel).mostrar THEN 2 ELSE 1,
     boxplots |-> "Cuartel" \in columnas]

\* resumen_list of tab_comparacion: one entry per flight and block of the
\* flight's rows
resumen_list(filas) ==
    { <<f, c>> : f \in Range(FechasOrdenadas(filas)), c \in Unicos(filas, "Cuartel") } \cap
    { <<AsTypeStr(filas[i].fecha_vuelo), filas[i].Cuartel>> : i \in DOMAIN filas }

\* df.groupby('Cuartel')[indice].mean(): the mean of each block that has
\* rows, the rows without block left out
media_por_cuartel(filas) ==
    [c \in Unicos(filas, "Cuartel") |->
        Razon(Suma(IndicesDe(filas, c), [i \in DOMAIN filas |-> filas[i].valor]),
              Cardinality(IndicesDe(filas, c)))]

\* the 'Diferencias entre Vuelos' table built on the blocks of both flights
diff_df_union(filas) ==
    Sea(FechasOrdenadas(filas), LAMBDA fechas_unicas :
    Sea(media_por_cuartel(FiltrarIgualStr(filas, "fecha_vuelo", fechas_unicas[1])),
        LAMBDA df1_grouped :
    Sea(media_por_cuartel(FiltrarIgualStr(filas, "fecha_vuelo", fechas_unicas[2])),
        LAMBDA df2_grouped :
    Sea(ValoresOrdenados(filas, "Cuartel"), LAMBDA indice_1 :
        [i \in DOMAIN indice_1 |->
           LET c == indice_1[i]
               m1 == IF c \in DOMAIN df1_grouped THEN df1_grouped[c] ELSE NoNumero
               m2 == IF c \in DOMAIN df2_grouped THEN df2_grouped[c] ELSE NoNumero
           IN [Cuartel |-> c, vuelo1 |-> m1, vuelo2 |-> m2,
               Diferencia |-> IF m1 = NoNumero \/ m2 = NoNumero THEN NoNumero
                              ELSE Razon(m2.num * m1.den - m1.num * m2.den,
                                         m1.den * m2.den)]]))))

\* the 'Diferencias entre Vuelos' table of tab_comparacion: one line per block
\* of df1_grouped, in the order of its index; df2_grouped is reindexed on it,
\* so a block without rows in the second flight gets NaN
diff_df(filas) ==
    Sea(FechasOrdenadas(filas), LAMBDA fechas_unicas :
    Sea(FiltrarIgualStr(filas, "fecha_vuelo", fechas_unicas[1]), LAMBDA df1 :
    Sea(media_por_cuartel(df1), LAMBDA df1_grouped :
    Sea(media_por_cuartel(FiltrarIgualStr(filas, "fecha_vuelo", fechas_unicas[2])),
        LAMBDA df2_grouped :
    Sea(ValoresOrdenados(df1, "Cuartel"), LAMBDA indice_1 :
        [i \in DOMAIN indice_1 |->
           LET c == indice_1[i]
               m1 == df1_grouped[c]
               m2 == IF c \in DOMAIN df2_grouped THEN df2_grouped[c] ELSE NoNumero
           IN [Cuartel |-> c, vuelo1 |-> m1, vuelo2 |-> m2,
               Diferencia |-> IF m2 = NoNumero THEN NoNumero
                              ELSE Razon(m2.num * m1.den - m1.num * m2.den,
                                         m1.den * m2.den)]])))))

\* tab_comparacion: a warning without two flights, else the stacked class
\* bars, the table by flight and block (whose sort raises KeyError when it
\* has no line) and the differences between flights
tab_comparacion(filas, columnas) ==
    IF "fecha_vuelo" \notin columnas
    THEN [error |-> "", aviso |-> TRUE, secciones |-> 0]
    ELSE IF Len(FechasOrdenadas(filas)) < 2
    THEN [error |-> "", aviso |-> TRUE, secciones |-> 0]
    ELSE IF "clase" \notin columnas
    THEN [error |-> "KeyError", aviso |-> FALSE, secciones |-> 0]
    ELSE IF "Cuartel" \notin columnas
    THEN [error |-> "KeyError", aviso |-> FALSE, secciones |-> 1]
    ELSE IF resumen_list(filas) = {}
    THEN [error |-> "KeyError", aviso |-> FALSE, secciones |-> 1]
    ELSE [error |-> "", aviso |-> FALSE, secciones |-> 3]

\* tab_datos: the table of the columns that exist
tab_datos(filas, columnas) ==
    [error |-> "",
     columnas |-> columnas \cap {"Cuartel", "Especie", "Variedad", "fecha_vuelo", "altura_m"},
     lineas |-> Len(filas)]

\* a tab the pass did not get to
NoEjecutado == [error |-> "no ejecutado"]

\* main from cargar_poligonos on: the four tabs in order, the pass ending at
\* the first exception
main(archivo, filas, columnas, fechas_sel) ==
    Sea(cargar_poligonos(archivo), LAMBDA gdf_poligonos :
    IF gdf_poligonos.k = "Exception"
    THEN [hecho |-> TRUE, archivo |-> archivo, filas |-> filas, cols |-> columnas,
          fechas_sel |-> fechas_sel, gdf |-> gdf_poligonos,
          aviso_poligonos |-> FALSE,
          resumen |-> NoEjecutado, analisis |-> NoEjecutado,
          comparacion |-> NoEjecutado, datos |-> NoEjecutado]
    ELSE
    Sea(secciones_resumen(filas, columnas, fechas_sel, gdf_poligonos), LAMBDA r1 :
    Sea(IF r1.error = "" THEN tab_analisis(filas, columnas, fechas_sel)
        ELSE NoEjecutado, LAMBDA r2 :
    Sea(IF r2.error = "" THEN tab_comparacion(filas, columnas)
        ELSE NoEjecutado, LAMBDA r3 :
    Sea(IF r3.error = "" THEN tab_datos(filas, columnas)
        ELSE NoEjecutado, LAMBDA r4 :
    [hecho |-> TRUE, archivo |-> archivo, filas |-> filas, cols |-> columnas,
     fechas_sel |-> fechas_sel, gdf |-> gdf_poligonos,
     aviso_poligonos |-> archivo.estado = "ilegible",
     resumen |-> r1, analisis |-> r2, comparacion |-> r3, datos |-> r4])))))

\* the files of block polygons: none, one that cannot be read, and readable
\* ones whose blocks have a surface, have none, or are not blocks of the table
Cuartel1 == ValStr(<<"C", "1">>)
Cuartel2 == ValStr(<<"C", "2">>)
Cuartel3 == ValStr(<<"C", "3">>)
Poligono(c, ha) == [Cuartel |-> c, Superficie_ha |-> ha]
ArchivosPoligonos ==
    { [estado |-> "ausente", poligonos |-> <<>>],
      [estado |-> "ilegible", poligonos |-> <<>>],
      [estado |-> "legible", poligonos |-> <<>>],
      [estado |-> "legible", poligonos |-> <<Poligono(Cuartel1, 2)>>],
      [estado |-> "legible", poligonos |-> <<Poligono(Cuartel1, 0)>>],
      [estado |-> "legible", poligonos |-> <<Poligono(Cuartel3, 2)>>],
      [estado |-> "legible", poligonos |-> <<Poligono(Cuartel1, 2), Poligono(Cuartel2, 3)>>] }

\* the rows a filtered table with the given columns can hold, listed once
FilasTabs(columnas) ==
    LET fs == IF "fecha_vuelo" \in columnas
              THEN <<ValNone, ValInt(9), ValStr(<<"1", "0">>)>> ELSE <<Ausente>>
        cs == IF "Cuartel" \in columnas THEN <<Cuartel1, Cuartel2>> ELSE <<Ausente>>
    IN [i \in 1..(Len(fs) * Len(cs)) |->
          [fecha_vuelo |-> fs[((i - 1) \div Len(cs)) + 1],
           Cuartel |-> cs[((i - 1) % Len(cs)) + 1]]]

\* the filtered tables of one to MaxRows rows, each listed once
TablasTabs(columnas) ==
    LET fr == FilasTabs(columnas)
    IN UNION { { [i \in 1..n |-> fr[t[i]]] :
                   t \in { u \in [1..n -> 1..Len(fr)] :
                             \A i \in 1..(n - 1) : u[i] <= u[i + 1] } } :
               n \in 1..MaxRows }

\* the flight selections that leave the given filtered table: all flights, or
\* the one flight every row is of
SeleccionesDe(filas, columnas) ==
    {Todas} \cup
    IF "fecha_vuelo" \in columnas
    THEN { f \in Range(FechasOrdenadas(filas)) :
             \A i \in DOMAIN filas : AsTypeStr(filas[i].fecha_vuelo) = f }
    ELSE {}

InitTabs ==
    /\ clase = ValNone
    /\ res = SinResultado
    /\ df = SinTabla
    /\ cols = {}
    /\ sel = SinSel
    /\ sb = SinSel
    /\ cmp = SinSel
    /\ an = SinSel
    /\ tend = SinSel
    /\ \E columnas \in SUBSET COLUMNAS_OPCIONALES :
       \E archivo \in ArchivosPoligonos :
       \E filas \in TablasTabs(columnas) :
       \E fechas_sel \in SeleccionesDe(filas, columnas) :
          pase = [hecho |-> FALSE, archivo |-> archivo, filas |-> filas,
                  cols |-> columnas, fechas_sel |-> fechas_sel]

PasadaTabs ==
    /\ ~pase.hecho
    /\ pase' = main(pase.archivo, pase.filas, pase.cols, pase.fechas_sel)
    /\ UNCHANGED <<clase, res, df, cols, sel, sb, cmp, an, tend>>

NextTabs == PasadaTabs

SpecTabs == InitTabs /\ [][NextTabs]_vars

----------------------------------------------------------------------------
(* Claims about the tabs of one pass (under SpecTabs) *)

\* C16: a table without the class column, Cuartel, Especie, Variedad or
\* altura_m never makes tab_resumen, tab_analisis, tab_comparacion or
\* tab_datos raise: every tab of the pass runs to its end.
C16_ColumnasOpcionales ==
    pase.hecho =>
      /\ pase.resumen.error = ""
      /\ pase.analisis.error = ""
      /\ pase.comparacion.error = ""
      /\ pase.datos.error = ""

\* the pass over the same table with a given file of polygons
PaseCon(archivo) == main(archivo, pase.filas, pase.cols, pase.fechas_sel)

\* C20: when the file of polygons is absent or cannot be read,
\* cargar_poligonos returns None without raising and the pass draws every
\* section that depends on the points alone exactly as with polygons; only
\* the surface and density KPIs, the block outlines of the maps and the block
\* summary table are left out.
C20_SinPoligonos ==
    (pase.hecho /\ pase.archivo.estado \in {"ausente", "ilegible"}) =>
      /\ pase.gdf = Ninguno
      /\ pase.resumen.error = ""
      /\ pase.resumen.info_sup = Ninguno
      /\ \A i \in DOMAIN pase.resumen.kpis : pase.resumen.kpis[i] = "sin_superficie"
      /\ \A i \in DOMAIN pase.resumen.mapas :
            /\ ("clase" \in pase.cols) = (pase.resumen.mapas[i] # Ninguno)
            /\ pase.resumen.mapas[i] # Ninguno => ~pase.resumen.mapas[i].contornos
      /\ ~pase.resumen.tabla_cuarteles
      /\ \A a \in { b \in ArchivosPoligonos : b.estado = "legible" } :
            /\ PaseCon(a).resumen.distribuciones = pase.resumen.distribuciones
            /\ PaseCon(a).resumen.analisis_automatico = pase.resumen.analisis_automatico
            /\ PaseCon(a).resumen.analisis_comparativo = pase.resumen.analisis_comparativo
            /\ DOMAIN PaseCon(a).resumen.mapas = DOMAIN pase.resumen.mapas
            /\ PaseCon(a).analisis = pase.analisis
            /\ PaseCon(a).comparacion = pase.comparacion
            /\ PaseCon(a).datos = pase.datos
      /\ {"clase", "Cuartel"} \subseteq pase.cols =>
            /\ pase.analisis.error = ""
            /\ pase.comparacion.error = ""
            /\ pase.datos.error = ""

\* C20 witness: a pass over a table of two flights with every optional
\* column and a file of polygons that cannot be read: the two maps, the
\* comparison and the data table are drawn
C20_Witness ==
    /\ pase.hecho
    /\ pase.archivo.estado = "ilegible"
    /\ pase.cols = COLUMNAS_OPCIONALES
    /\ pase.gdf = Ninguno
    /\ pase.aviso_poligonos
    /\ pase.resumen.analisis_comparativo
    /\ Len(pase.resumen.mapas) = 2
    /\ pase.resumen.mapas[1] # Ninguno
    /\ pase.comparacion.secciones = 3
    /\ pase.datos.error = ""

----------------------------------------------------------------------------
(* Claims about the legend, the bar order and the healthy tests (under       *)
(* SpecClasif)                                                               *)

\* C23: for every class value, the colour asignar_color_hex returns is the
\* colour COLORES_CLASE gives to the class clasificar_punto returns, in both
\* map builders, texts that hold "bajo" and "muy" without "muy bajo" included.
C23_ColorDeLaLeyenda ==
    res.hecho =>
      /\ res.color = COLORES_CLASE[res.punto]
      /\ res.color = COLORES_CLASE[res.punto_sat]

\* the spellings of the five classes, in lower case
TextosCanonicos ==
    {t_muy_bajo, t_bajo, t_medio, t_medio_alto_guion, t_medio_alto_espacio, t_alto}

\* the ordinal place of the class of a text
Rango(t) ==
    CHOOSE i \in DOMAIN ORDEN_CLASES : ORDEN_CLASES[i] = clasificar_punto(ValStr(t))

\* C24: for every pair of spellings of the five classes ("Medio alto" with a
\* space included, in any letter case), obtener_orden gives the strictly
\* smaller rank to the text of the lower class.
C24_OrdenDeBarras ==
    (res.hecho /\ clase.k = "str" /\ TextoClase \in TextosCanonicos) =>
      \A w \in TextosCanonicos :
         Rango(w) < Rango(TextoClase) => obtener_orden(ValStr(w)) < res.orden

\* C27: a class value passes the healthy test of mostrar_kpis exactly when
\* generar_analisis_automatico counts it in n_alto or in n_medio_alto.
C27_SanosIguales ==
    res.hecho => (res.sano_kpi <=> res.sano_analisis)

\* C28: every row handed to a map builder is drawn in exactly one class
\* trace, the rows classified as "Sin dato" included.
C28_UnaTrazaPorPunto ==
    res.hecho =>
      /\ Cardinality(res.trazas) = 1
      /\ Cardinality(res.trazas_sat) = 1

----------------------------------------------------------------------------
(* A further claim about the comparison of two flights (under SpecTendencia) *)

\* the message that goes with each trend label
MensajeDe(etiqueta) ==
    CASE etiqueta = "MEJORA SIGNIFICATIVA"    -> "mejora significativa"
      [] etiqueta = "LEVE MEJORA"             -> "leve mejora"
      [] etiqueta = "ESTABLE"                 -> "relativamente estable"
      [] etiqueta = "LEVE DETERIORO"          -> "leve deterioro"
      [] etiqueta = "DETERIORO SIGNIFICATIVO" -> "deterioro significativo"

\* C25: the trend label and the interpretation message of
\* generar_analisis_comparativo name the same band for every change, a change
\* of exactly -1 % and of exactly -5 % included.
C25_EtiquetaYMensaje ==
    tend.hecho => tend.interpretacion = MensajeDe(tend.tendencia)

----------------------------------------------------------------------------
(* Claims about the passes of main over the base table (under SpecFiltro) *)

C26_FiltradoNoVacio ==
    (sb.hecho /\ ~sb.error) =>
      /\ sb.df_filtrado # <<>>
      /\ Range(sb.df_filtrado) \subseteq Range(df)

----------------------------------------------------------------------------
(* The comparison of two flights: tab_resumen and tab_comparacion on         *)
(* filtered tables of up to MaxVuelos rows with up to three flight dates      *)

MaxVuelos == 3

\* the cells of the flight date column: texts and a number whose string order
\* is not their numeric order, or the dates of a datetime64 column
FechasDeVuelo(tipo) ==
    IF tipo = "datetime"
    THEN <<ValNone, ValFecha(7), ValFecha(8), ValFecha(9)>>
    ELSE <<ValNone, ValStr(<<"1", "0">>), ValStr(<<"2">>), ValInt(9)>>

\* the rows a filtered table with the given columns can hold (id apart),
\* listed once: a date, a block or none, and an index value
FilasDeVuelo(tipo, columnas) ==
    LET fs == IF "fecha_vuelo" \in columnas THEN FechasDeVuelo(tipo) ELSE <<Ausente>>
        cs == IF "Cuartel" \in columnas THEN <<ValNone, Cuartel1, Cuartel2>>
              ELSE <<Ausente>>
        vs == <<1, 3>>
    IN [i \in 1..(Len(fs) * Len(cs) * Len(vs)) |->
          [fecha_vuelo |-> fs[((i - 1) \div (Len(cs) * Len(vs))) + 1],
           Cuartel |-> cs[(((i - 1) \div Len(vs)) % Len(cs)) + 1],
           valor |-> vs[((i - 1) % Len(vs)) + 1]]]

\* a row of the filtered table: its index and its cells
FilaDeVuelo(i, f) == [id |-> i, fecha_vuelo |-> f.fecha_vuelo, Cuartel |-> f.Cuartel,
                      valor |-> f.valor]

\* the tabs get a filtered table of one to MaxVuelos rows; tables are listed
\* with their rows in the order of FilasDeVuelo
InitVuelos ==
    /\ clase = ValNone
    /\ res = SinResultado
    /\ sb = SinSel
    /\ an = SinSel
    /\ tend = SinSel
    /\ pase = SinSel
    /\ cmp = SinSel
    /\ \E c \in SUBSET {"fecha_vuelo", "Cuartel"} : cols = c \cup {"clase"}
    /\ \E n \in 1..MaxVuelos, tipo \in {"datetime", "object"} :
       \E fr \in {FilasDeVuelo(tipo, cols)} :
       \E t \in [1..n -> 1..Len(fr)] :
          /\ \A i \in 1..(n - 1) : t[i] <= t[i + 1]
          /\ df = [i \in 1..n |-> FilaDeVuelo(i, fr[t[i]])]
    /\ \E fs \in SeleccionesDe(df, cols) :
          sel = [SelInicial EXCEPT !.fechas_sel = fs]

\* tab_resumen splitting the filtered table into the two compared flights
Resumir ==
    /\ ~cmp.hecho
    /\ cmp' = tab_resumen(df, cols, sel.fechas_sel)
    /\ UNCHANGED <<clase, res, df, cols, sel, sb, an, tend, pase>>

\* tab_comparacion on the filtered table, with its table of differences when
\* it gets to it
CompararVuelos ==
    /\ ~pase.hecho
    /\ \E r \in {tab_comparacion(df, cols)} :
          pase' = [hecho |-> TRUE, comparacion |-> r,
                   diff_df |-> IF r.secciones = 3 THEN diff_df(df) ELSE <<>>]
    /\ UNCHANGED <<clase, res, df, cols, sel, sb, cmp, an, tend>>

NextVuelos == Resumir \/ CompararVuelos

SpecVuelos == InitVuelos /\ [][NextVuelos]_vars

\* the texts of the distinct non-null flight dates of the filtered table
TextosDeFechas ==
    IF "fecha_vuelo" \in cols THEN { Str(v) : v \in Unicos(df, "fecha_vuelo") } ELSE {}

\* C29: the comparison is shown exactly with the selection 'Todas' and at
\* least two distinct non-null dates; the two compared flights are then the
\* two smallest dates in ascending string order, the two row subsets are
\* disjoint and hold only rows of their own date, so the rows of a third or
\* later date and the rows without date are in neither.
C29_DosPrimerosVuelos ==
    cmp.hecho =>
      /\ cmp.mostrar <=> (sel.fechas_sel = Todas /\ Cardinality(TextosDeFechas) >= 2)
      /\ cmp.mostrar =>
            /\ cmp.fecha1 \in TextosDeFechas
            /\ cmp.fecha2 \in TextosDeFechas
            /\ cmp.fecha1 # cmp.fecha2
            /\ MenorStr(cmp.fecha1, cmp.fecha2)
            /\ \A f \in TextosDeFechas \ {cmp.fecha1, cmp.fecha2} : MenorStr(cmp.fecha2, f)
            /\ Range(cmp.df1) \cap Range(cmp.df2) = {}
            /\ Range(cmp.df1) \cup Range(cmp.df2) \subseteq Range(df)
            /\ \A r \in Range(cmp.df1) :
                  ~EsNulo(r.fecha_vuelo) /\ Str(r.fecha_vuelo) = cmp.fecha1
            /\ \A r \in Range(cmp.df2) :
                  ~EsNulo(r.fecha_vuelo) /\ Str(r.fecha_vuelo) = cmp.fecha2

\* C29 witness: three flights '10' < '2' < '9' are in the table; the
\* comparison is of '10' and '2', one row each, and the row of '9' is in
\* neither
C29_Witness ==
    /\ cmp.hecho /\ cmp.mostrar
    /\ Cardinality(TextosDeFechas) = 3
    /\ cmp.fecha1 = <<"1", "0">>
    /\ cmp.fecha2 = <<"2">>
    /\ Len(cmp.df1) = 1 /\ Len(cmp.df2) = 1
    /\ \E r \in Range(df) : r \notin Range(cmp.df1) \cup Range(cmp.df2)

\* the blocks that have rows in the n-th flight of the filtered table
BloquesDelVuelo(n) ==
    { r.Cuartel : r \in { x \in Range(df) :
                            /\ ~EsNulo(x.fecha_vuelo) /\ ~EsNulo(x.Cuartel)
                            /\ Str(x.fecha_vuelo) = FechasOrdenadas(df)[n] } }

\* C30: when tab_comparacion draws the 'Diferencias entre Vuelos' table, the
\* table has exactly one line per block that has rows in the first flight; a
\* block without rows in the second flight has a missing second mean and a
\* missing difference, nothing being raised; a block that has rows only in
\* the second flight has no line.
C30_DiferenciasPorCuartel ==
    (pase.hecho /\ pase.comparacion.secciones = 3) =>
      /\ pase.comparacion.error = ""
      /\ \A c \in BloquesDelVuelo(1) :
            Cardinality({ i \in DOMAIN pase.diff_df : pase.diff_df[i].Cuartel = c }) = 1
      /\ \A i \in DOMAIN pase.diff_df :
            /\ pase.diff_df[i].Cuartel \in BloquesDelVuelo(1)
            /\ pase.diff_df[i].vuelo1 # NoNumero
            /\ pase.diff_df[i].Cuartel \notin BloquesDelVuelo(2) <=>
                  pase.diff_df[i].vuelo2 = NoNumero
            /\ pase.diff_df[i].vuelo2 = NoNumero <=> pase.diff_df[i].Diferencia = NoNumero

\* C30 witness: block C1 has rows in the first flight only and block C2 in
\* the second flight only; the table has one line, of C1, with a missing
\* second mean and difference
C30_Witness ==
    /\ pase.hecho /\ pase.comparacion.secciones = 3
    /\ BloquesDelVuelo(1) = {Cuartel1}
    /\ BloquesDelVuelo(2) = {Cuartel2}
    /\ Len(pase.diff_df) = 1
    /\ pase.diff_df[1].Cuartel = Cuartel1
    /\ pase.diff_df[1].vuelo2 = NoNumero
    /\ pase.diff_df[1].Diferencia = NoNumero

====
